---- MODULE Spec2Model ----
(***************************************************************************)
(* A model of ringer: provider fetch/decode (main.rs, provider/*.rs), the  *)
(* sort/priority engine (config.rs), the template argument builder and    *)
(* the dependency-ordered render loop (template/mod.rs).                   *)
(*                                                                         *)
(* Several specifications share the variables below.  Each specification  *)
(* drives one group of variables and keeps the other groups idle:         *)
(*   SpecRender / FairRender  RenderEngine::render                         *)
(*   SpecMain                 main: provider tasks, TemplateArgs, render   *)
(*   SpecDecode               Provider::parse_nodes_from_content           *)
(*   SpecPriority             SortRules::from, SortRules::get_node_priority*)
(*   SpecSort                 TemplateArgs::new                            *)
(***************************************************************************)
EXTENDS Integers, Sequences, FiniteSets, TLC

VARIABLES
    \* ---- RenderEngine (template/mod.rs) ----
    templates,      \* RenderEngine.templates: the configured templates, in order
    queue,          \* render(): the VecDeque of pending templates (indices into templates)
    output,         \* the "output" object of RenderEngine.context: name -> rendered text
    rendered,       \* log: templates the templating engine rendered successfully, in order
    written,        \* log: output files written, in order
    rpc,            \* position of render(): "idle", "running", "ok", "err"
    lastStep,       \* what the last loop iteration of render() did
    \* ---- main (main.rs) ----
    mainPc,         \* position of main()
    providers,      \* config.providers
    taskPc,         \* per provider future: "fetch", "body", "done", "failed", "panicked"
    taskContent,    \* per provider future: the fetched content
    taskNodes,      \* per provider future: the decoded node list
    finishOrder,    \* the provider futures that have completed, in the order
                    \* of their completion
    nodesByProviders, \* NODES_BY_PROVIDERS
    templateArgs,   \* TEMPLATE_ARGS
    \* ---- Provider::parse_nodes_from_content (provider/*.rs) ----
    dProvider,      \* the provider (self)
    dContent,       \* the content argument
    dResult,        \* the returned Result<Vec<Node>>, None before the call returns
    \* ---- SortRules, TemplateArgs::new (config.rs, template/mod.rs) ----
    sort_rules,     \* the SortRules tables
    priorityCall,   \* the last call of get_node_priority: arguments and result
    argsIn,         \* the arguments of TemplateArgs::new
    argsOut,        \* the TemplateArgs it returned, None before the call
    argsPrev,       \* the arguments and result of the previous call on the same nodes
    \* ---- Adaptor::convert_node, nodes_to_string (template/adaptors/*.rs) ----
    adNodes,        \* the nodes handed to the adaptor, in order
    adConvert,      \* the last call of convert_node: adaptor, node and result
    adString,       \* the last call of nodes_to_string: adaptor and result
    \* ---- Speed (node/hysteria.rs, node/hysteria2.rs) ----
    speed,          \* a Speed value of a Hysteria or Hysteria2 node
    speedText,      \* the result of to_text on it, None before the call
    speedMbps,      \* the result of to_mbps, None before the call
    \* ---- get_nodes, get_nodes_names (template/functions/*.rs) ----
    fnCall          \* the calls of the template functions on the TemplateArgs
                    \* (argsOut), in order: name, arguments and result of each

renderVars == <<templates, queue, output, rendered, written, rpc, lastStep>>
mainVars == <<mainPc, providers, taskPc, taskContent, taskNodes, finishOrder,
              nodesByProviders, templateArgs>>
decodeVars == <<dProvider, dContent, dResult>>
sortVars == <<sort_rules, priorityCall, argsIn, argsOut, argsPrev>>
adaptorVars == <<adNodes, adConvert, adString>>
speedVars == <<speed, speedText, speedMbps>>
functionVars == <<fnCall>>
vars == <<renderVars, mainVars, decodeVars, sortVars, adaptorVars, speedVars, functionVars>>

\* Option<T>
None == <<>>
Some(x) == <<x>>

(***************************************************************************)
(* Bounds                                                                  *)
(***************************************************************************)
MaxTemplates == 3

\* template names that occur in `name` and `requires`
TemplateNames == {"a", "b"}

(***************************************************************************)
(* Template (template/mod.rs:151).  file_name, template body and          *)
(* output_sub_directories do not influence the control flow of render();  *)
(* the body is represented by the template's identity in the rendered     *)
(* text.                                                                   *)
(***************************************************************************)
Template == [name : {None} \cup {Some(n) : n \in TemplateNames},
             requires : SUBSET TemplateNames]

TemplateLists == UNION {[1..n -> Template] : n \in 0..MaxTemplates}

Range(s) == {s[i] : i \in DOMAIN s}

\* Value::Object lookup: output_in_context.get(name).is_some()
OutputHas(name) == name \in DOMAIN output

\* template/mod.rs:239-246  requires.is_empty() or all required names are in "output"
RequiresOk_any(t) ==
    \/ templates[t].requires = {}
    \/ \E n \in templates[t].requires : OutputHas(n)

RequiresOk(t) ==
    \/ templates[t].requires = {}
    \/ \A n \in templates[t].requires : OutputHas(n)

\* The text the templating engine produces for template t against the current
\* context: it is a function of the template and of the outputs it may embed
\* ({{ output.<name> }} of each required template).
RenderText(t) ==
    [tpl |-> t,
     embeds |-> [n \in templates[t].requires \cap DOMAIN output |-> output[n].tpl]]

\* template/mod.rs:266  map.insert(template_name, output): an existing entry is replaced
MapInsert_keepFirst(map, k, v) ==
    [x \in DOMAIN map \cup {k} |-> IF x \in DOMAIN map THEN map[x] ELSE v]

MapInsert(map, k, v) == [x \in DOMAIN map \cup {k} |-> IF x = k THEN v ELSE map[x]]

EmptyMap == [x \in {} |-> x]

(***************************************************************************)
(* RenderEngine::render, one loop iteration per action.                   *)
(***************************************************************************)
\* template/mod.rs:249  templates.push_back(template)
PushBack_front(q, t) == <<t>> \o q

PushBack(q, t) == Append(q, t)

\* template/mod.rs:261,280  `output?`: the engine's error is returned from render()
EngineFailure_continue(t) ==
    /\ rpc' = rpc
    /\ lastStep' = [kind |-> "render_error", tpl |-> t]
    /\ UNCHANGED <<output, rendered, written>>

EngineFailure(t) ==
    /\ rpc' = "err"
    /\ lastStep' = [kind |-> "render_error", tpl |-> t]
    /\ UNCHANGED <<output, rendered, written>>

\* template/mod.rs:235
RenderStart ==
    /\ rpc = "idle"
    /\ queue' = [i \in 1..Len(templates) |-> i]
    /\ rpc' = "running"
    /\ lastStep' = [kind |-> "start", tpl |-> 0]
    /\ UNCHANGED <<templates, output, rendered, written>>

\* template/mod.rs:237-252  pop_front, unmet requirement: push_back and continue
Requeue ==
    /\ rpc = "running"
    /\ queue # <<>>
    /\ LET t == Head(queue) IN
        /\ ~RequiresOk(t)
        /\ queue' = PushBack(Tail(queue), t)
        /\ lastStep' = [kind |-> "requeue", tpl |-> t]
    /\ UNCHANGED <<templates, output, rendered, written, rpc>>

\* template/mod.rs:283-303  create_dir_all(..)?; write(output_path, output)?
WriteOutput(t, text, ioOk) ==
    IF ioOk
    THEN /\ written' = Append(written, [tpl |-> t, text |-> text])
         /\ lastStep' = [kind |-> "written", tpl |-> t]
         /\ rpc' = rpc
    ELSE /\ written' = written
         /\ lastStep' = [kind |-> "io_error", tpl |-> t]
         /\ rpc' = "err"

\* template/mod.rs:254-272  named template: add_raw_template(..)?, render(..)?,
\* insert into "output", then write the file
RenderNamed ==
    /\ rpc = "running"
    /\ queue # <<>>
    /\ LET t == Head(queue) IN
        /\ RequiresOk(t)
        /\ templates[t].name # None
        /\ queue' = Tail(queue)
        /\ \E engineOk \in BOOLEAN, ioOk \in BOOLEAN :
            IF engineOk
            THEN /\ rendered' = Append(rendered, [tpl |-> t, text |-> RenderText(t)])
                 /\ output' = MapInsert(output, templates[t].name[1], RenderText(t))
                 /\ WriteOutput(t, RenderText(t), ioOk)
            ELSE EngineFailure(t)
    /\ UNCHANGED templates

\* template/mod.rs:273-281  unnamed template: render_str(..)?, then write the file
RenderUnnamed ==
    /\ rpc = "running"
    /\ queue # <<>>
    /\ LET t == Head(queue) IN
        /\ RequiresOk(t)
        /\ templates[t].name = None
        /\ queue' = Tail(queue)
        /\ \E engineOk \in BOOLEAN, ioOk \in BOOLEAN :
            IF engineOk
            THEN /\ rendered' = Append(rendered, [tpl |-> t, text |-> RenderText(t)])
                 /\ output' = output
                 /\ WriteOutput(t, RenderText(t), ioOk)
            ELSE EngineFailure(t)
    /\ UNCHANGED templates

\* template/mod.rs:237,306  the queue is empty: Ok(())
RenderReturnOk ==
    /\ rpc = "running"
    /\ queue = <<>>
    /\ rpc' = "ok"
    /\ lastStep' = [kind |-> "return_ok", tpl |-> 0]
    /\ UNCHANGED <<templates, queue, output, rendered, written>>

RenderStep == Requeue \/ RenderNamed \/ RenderUnnamed \/ RenderReturnOk

(***************************************************************************)
(* Strings that are compared or searched are sequences of character codes *)
(***************************************************************************)
StrA == <<97>>
StrB == <<98>>
StrAB == <<97, 98>>
StrP == <<112>>
StrPQ == <<112, 113>>
StrQ == <<113>>
StrHost == <<104>>
Colon == 58

Ok(v) == [tag |-> "ok", val |-> v]
Err(e) == [tag |-> "err", val |-> e]
Panic == [tag |-> "panic", val |-> "panic"]

(***************************************************************************)
(* node/ss.rs                                                              *)
(***************************************************************************)
\* node/ss.rs:227-283  the alias table of Method::get_alias / Method::from_alias
MethodAliases ==
    << <<"2022-blake3-aes-128-gcm", "Ss2022Blake3Aes128Gcm">>,
       <<"2022-blake3-aes-256-gcm", "Ss2022Blake3Aes256Gcm">>,
       <<"2022-blake3-chacha20-poly1305", "Ss2022Blake3Chacha20Poly1305">>,
       <<"2022-blake3-chacha8-poly1305", "Ss2022Blake3Chacha8Poly1305">>,
       <<"chacha20-poly1305", "AeadChacha20Poly1305">>,
       <<"aes-256-gcm", "AeadAes256Gcm">>,
       <<"aes-128-gcm", "AeadAes128Gcm">>,
       <<"aes-128-ctr", "Aes128Ctr">>,
       <<"aes-192-ctr", "Aes192Ctr">>,
       <<"aes-256-ctr", "Aes256Ctr">>,
       <<"aes-128-cfb", "Aes128Cfb">>,
       <<"aes-192-cfb", "Aes192Cfb">>,
       <<"aes-256-cfb", "Aes256Cfb">>,
       <<"camellia-128-cfb", "Camellia128Cfb">>,
       <<"camellia-192-cfb", "Camellia192Cfb">>,
       <<"camellia-256-cfb", "Camellia256Cfb">>,
       <<"chacha20", "Chacha20">>,
       <<"chacha20-ietf", "Chacha20Ietf">>,
       <<"bf-cfb", "BfCfb">>,
       <<"salsa20", "Salsa20">>,
       <<"rc4-md5", "Rc4Md5">> >>

from_alias_default(alias) ==
    IF \E i \in DOMAIN MethodAliases : MethodAliases[i][1] = alias
    THEN Some(MethodAliases[CHOOSE i \in DOMAIN MethodAliases :
                                MethodAliases[i][1] = alias][2])
    ELSE Some("AeadAes128Gcm")

\* node/ss.rs:255-283  Method::from_alias
from_alias(alias) ==
    IF \E i \in DOMAIN MethodAliases : MethodAliases[i][1] = alias
    THEN Some(MethodAliases[CHOOSE i \in DOMAIN MethodAliases :
                                MethodAliases[i][1] = alias][2])
    ELSE None

\* BTreeMap::get
MapGet(map, key) == IF key \in DOMAIN map THEN Some(map[key]) ELSE None

\* node/ss.rs:481-497  parse_obfs_plugin_args
parse_obfs_plugin_args(opts) ==
    IF MapGet(opts, "obfs") # None /\ opts["obfs"] \notin {"http", "tls"}
    THEN Err("Unknown obfs")
    ELSE Ok([obfs |-> MapGet(opts, "obfs"),
             host |-> MapGet(opts, "obfs-host"),
             uri |-> MapGet(opts, "obfs-uri")])

\* node/ss.rs:342-361  Plugin::from_name_and_opts
from_name_and_opts(name, opts) ==
    IF name \in {"obfs", "simple-obfs", "obfs-local"}
    THEN LET o == parse_obfs_plugin_args(opts)
         IN IF o.tag = "ok" THEN Ok([kind |-> "SimpleObfs", opts |-> o.val])
            ELSE Err("failed to parse obfs_opts")
    ELSE IF name \in {"gq", "gq-client", "go-quiet"} THEN Ok([kind |-> "GoQuiet"])
    ELSE IF name \in {"ck", "ck-client", "cloak"} THEN Ok([kind |-> "Cloak"])
    ELSE IF name = "kcptun" THEN Ok([kind |-> "Kcptun"])
    ELSE IF name \in {"v2ray", "v2ray-plugin"} THEN Ok([kind |-> "V2ray"])
    ELSE Ok([kind |-> "Unknown", plugin_name |-> name,
             plugin_opts |-> IF DOMAIN opts = {} THEN None ELSE Some(opts)])

\* str::split(':') on a text given as its pieces, each the separator ":" or a
\* stretch of other characters: the segments between the separators
RECURSIVE SplitColon(_)
SplitColon(text) ==
    IF text = <<>> THEN <<"">>
    ELSE LET rest == SplitColon(Tail(text))
         IN IF Head(text) = ":" THEN <<"">> \o rest
            ELSE <<Head(text) \o Head(rest)>> \o Tail(rest)

\* node/ss.rs:36-128  SsNode::from_url on the parts of a parsed ss:// Url.
\* A Url with a password carries method and password in the clear; a Url
\* without one carries `userinfo`: whether the user name is valid base64 and
\* the pieces of the decoded text.
SsNode_from_url(url) ==
    LET encoded == "userinfo" \in DOMAIN url
        ss_userinfo_parts == SplitColon(url.userinfo.decoded)
        method_str == IF encoded THEN ss_userinfo_parts[1] ELSE url.method
        password == IF encoded THEN ss_userinfo_parts[2] ELSE url.password
    IN
    IF url.server = None THEN Err("does not contain server")
    ELSE IF url.port = None THEN Err("does not contain port")
    ELSE IF encoded /\ ~url.userinfo.base64
    THEN Err("failed to decode base64 for userinfo")
    ELSE IF encoded /\ Len(ss_userinfo_parts) < 2 THEN Err("does not contain password")
    ELSE IF from_alias(method_str) = None THEN Err("Unknown method")
    ELSE LET plugin == IF url.plugin = None THEN Ok(None)
                       ELSE from_name_and_opts(url.plugin[1].name, url.plugin[1].opts)
         IN IF plugin.tag # "ok" THEN Err("failed to parse SS plugin")
            ELSE Ok([type |-> "ss", remarks |-> url.fragment, server |-> url.server[1],
                     server_port |-> url.port[1], password |-> password,
                     method |-> from_alias(method_str)[1], udp |-> None,
                     udp_over_tcp |-> None,
                     plugin |-> IF url.plugin = None THEN None ELSE Some(plugin.val)])

(***************************************************************************)
(* node/ssr.rs                                                             *)
(***************************************************************************)
\* node/ssr.rs:30-126  SsrNode::from_url on the parts of a parsed ssr:// Url.
\* url.blob is the host: whether it is valid base64 and, of the decoded text,
\* the number of ':'-separated fields before "/?", the fields, and the query
\* behind "/?".  port is None when the field is not a u16, password is None
\* when it is not valid base64.  The query is a record of the keys it holds:
\* remarks, obfsparam and protoparam are None when they are not valid base64,
\* udpport and uot are None when they are no number.  Indexing part1_parts
\* past its end and .unwrap() on a failed decode or parse panic.
SsrNode_from_url(url) ==
    IF url.blob = None THEN Err("empty host")
    ELSE IF ~url.blob[1].base64 THEN Err("failed to decode base64 for the SSR link")
    ELSE LET f == url.blob[1]
             q == url.blob[1].query
             Has(key) == q # None /\ key \in DOMAIN q[1]
             \* query.get(key).and_then(..): None when the value is empty
             Param(key) == IF Has(key) /\ q[1][key] # Some(<<>>) THEN q[1][key]
                           ELSE None
         IN IF f.nfields < 2 THEN Panic
            ELSE IF f.port = None THEN Err("failed to parse server port")
            ELSE IF f.nfields < 6 THEN Panic
            ELSE IF f.password = None
            THEN Err("failed to decode base64 for the password")
            ELSE IF Has("malformed") THEN Err("failed to parse qeury")
            ELSE IF \E key \in {"remarks", "obfsparam", "protoparam", "udpport", "uot"} :
                       Has(key) /\ q[1][key] = None
            THEN Panic
            ELSE Ok([type |-> "ssr",
                     remarks |-> Param("remarks"),
                     server |-> f.server, server_port |-> f.port[1],
                     password |-> f.password[1],
                     method |-> f.method, protocol |-> f.protocol,
                     protocol_param |-> Param("protoparam"),
                     obfs |-> f.obfs, obfs_param |-> Param("obfsparam"),
                     udpport |-> IF Has("udpport") THEN q[1].udpport ELSE None,
                     uot |-> IF Has("uot") THEN Some(q[1].uot[1] # 0) ELSE None])

(***************************************************************************)
(* provider/ssr.rs, provider/clash.rs                                      *)
(***************************************************************************)
\* provider/mod.rs:47-60  CommonProviderOptions
NoOptions == [ss_udp |-> None, ss_udp_over_tcp |-> None, ssr_udpport |-> None,
              ssr_uot |-> None]

\* provider/ssr.rs:86-92,101-107  if let Some(x) = option { field = Some(x) }
Override(value, option) == IF option # None THEN option ELSE value

\* provider/ssr.rs:74-80  the lines that survive filter_map: not empty and
\* parsable as a Url
IsLink_emptyOnly(line) == line.text # "empty"

IsLink(line) == line.text = "url"

\* provider/ssr.rs:81-113  decode one link and apply the provider's overrides
Ssr_decode_link(options, url) ==
    IF url.scheme = "ss"
    THEN LET r == SsNode_from_url(url)
         IN IF r.tag # "ok" THEN r
            ELSE Ok([r.val EXCEPT !.udp = Override(@, options.ss_udp),
                                  !.udp_over_tcp = Override(@, options.ss_udp_over_tcp)])
    ELSE IF url.scheme = "ssr"
    THEN LET r == SsrNode_from_url(url)
         IN IF r.tag # "ok" THEN r
            ELSE Ok([r.val EXCEPT !.udpport = Override(@, options.ssr_udpport),
                                  !.uot = Override(@, options.ssr_uot)])
    ELSE Err("Unknown scheme")

\* provider/ssr.rs:73,114  par_split(..)...collect::<Result<Vec<Node>>>(): the
\* possible outcomes.  The nodes in order when every element is Ok; an error
\* when an element is an error; a panic in an element unwinds through the
\* call.  The elements are decoded in parallel and the collection stops early
\* on an error, so with both an error and a panicking element either happens.
CollectResults_skipErrors(rs) ==
    LET IsOk(r) == r.tag = "ok"
        oks == SelectSeq(rs, IsOk)
    IN {Ok([i \in DOMAIN oks |-> oks[i].val])}

CollectResults(rs) ==
    LET tags == {rs[i].tag : i \in DOMAIN rs}
    IN IF tags \subseteq {"ok"} THEN {Ok([i \in DOMAIN rs |-> rs[i].val])}
       ELSE {Err("decode") : x \in tags \cap {"err"}}
            \cup {Panic : x \in tags \cap {"panic"}}

\* provider/ssr.rs:47-115  Ssr::parse_nodes_from_content
Ssr_parse_nodes_from_content(options, content) ==
    IF ~content.base64 THEN {Err("failed to decode base64 from the provider content")}
    ELSE LET links == SelectSeq(content.entries, IsLink)
         IN CollectResults([i \in DOMAIN links |-> Ssr_decode_link(options, links[i])])

\* provider/clash.rs:56-115  the second filter_map: a proxy becomes a node or
\* is dropped
Clash_convert_proxy(proxy) ==
    IF proxy.type = "ss"
    THEN IF from_alias(proxy.cipher) = None THEN None
         ELSE LET plugin == IF proxy.plugin = None THEN Ok(None)
                            ELSE from_name_and_opts(proxy.plugin[1],
                                    IF proxy.plugin_opts = None THEN EmptyMap
                                    ELSE proxy.plugin_opts[1])
              IN IF plugin.tag # "ok" THEN None
                 ELSE Some([type |-> "ss", remarks |-> Some(proxy.name),
                            server |-> proxy.server,
                            server_port |-> proxy.port, password |-> proxy.password,
                            method |-> from_alias(proxy.cipher)[1], udp |-> proxy.udp,
                            udp_over_tcp |-> None,
                            plugin |-> IF proxy.plugin = None THEN None
                                       ELSE Some(plugin.val)])
    ELSE Some([type |-> "ssr", remarks |-> Some(proxy.name), server |-> proxy.server,
               server_port |-> proxy.port, password |-> proxy.password,
               method |-> proxy.cipher, protocol |-> proxy.protocol,
               protocol_param |-> proxy.protocol_param, obfs |-> proxy.obfs,
               obfs_param |-> proxy.obfs_param, udpport |-> None, uot |-> None])

\* provider/clash.rs:50-55  the first filter_map keeps the implemented proxies
IsImplemented(proxy) == proxy.type \in {"ss", "ssr"}

IsConvertible(proxy) == Clash_convert_proxy(proxy) # None

\* provider/clash.rs:45-117  Clash::parse_nodes_from_content
Clash_parse_nodes_from_content(options, content) ==
    IF ~content.yaml THEN {Err("yaml")}
    ELSE LET implemented == SelectSeq(content.entries, IsImplemented)
             kept == SelectSeq(implemented, IsConvertible)
         IN {Ok([i \in DOMAIN kept |-> Clash_convert_proxy(kept[i])[1]])}

\* provider/mod.rs:42-45  enum_dispatch over Providers: the possible results
parse_nodes_from_content(provider, content) ==
    IF provider.type = "ssr"
    THEN Ssr_parse_nodes_from_content(provider.options, content)
    ELSE Clash_parse_nodes_from_content(provider.options, content)

(***************************************************************************)
(* String operations of the standard library, on sequences of character   *)
(* codes                                                                   *)
(***************************************************************************)
\* str::contains
Contains(str, pat) ==
    \E i \in 0..(Len(str) - Len(pat)) : SubSeq(str, i + 1, i + Len(pat)) = pat

\* Ord for String: lexicographic by bytes
StrCmp(x, y) ==
    LET n == IF Len(x) < Len(y) THEN Len(x) ELSE Len(y)
        diff == {i \in 1..n : x[i] # y[i]}
    IN IF diff = {}
       THEN IF Len(x) < Len(y) THEN "Less"
            ELSE IF Len(x) > Len(y) THEN "Greater" ELSE "Equal"
       ELSE LET i == CHOOSE k \in diff : \A m \in diff : k <= m
            IN IF x[i] < y[i] THEN "Less" ELSE "Greater"

\* Ord for u8
IntCmp(x, y) == IF x < y THEN "Less" ELSE IF x > y THEN "Greater" ELSE "Equal"

\* Display for u16: the decimal digits
RECURSIVE Digits(_)
Digits(n) == IF n < 10 THEN <<48 + n>> ELSE Append(Digits(n \div 10), 48 + (n % 10))

(***************************************************************************)
(* node/mod.rs  GetNodeName                                                *)
(***************************************************************************)
\* node/ss.rs:131, node/ssr.rs:137, ...  get_name
get_name(node) == node.remarks

\* node/hysteria.rs:59-64, node/hysteria2.rs:52-57  ServerPort::get_start_port
get_start_port(port) == IF port.kind = "Single" THEN port.port ELSE port.start

\* node/ss.rs:139, node/ssr.rs:145, node/hysteria.rs:31, node/hysteria2.rs:28,
\* node/wireguard.rs:50  get_port
get_port(node) ==
    IF node.type \in {"hysteria", "hysteria2"} THEN get_start_port(node.port)
    ELSE IF node.type = "wireguard" THEN node.port
    ELSE node.server_port

\* node/mod.rs:25-29, node/ssr.rs:129-135  get_display_name
get_display_name(node) ==
    IF get_name(node) # None THEN get_name(node)[1]
    ELSE node.server \o <<Colon>> \o Digits(get_port(node))

(***************************************************************************)
(* config.rs  SortRules                                                    *)
(***************************************************************************)
\* config.rs:70-78  SortRules::empty
SortRules_empty ==
    [node_name_to_priority |-> EmptyMap,
     node_names_contains |-> EmptyMap,
     provider_name_to_priority |-> EmptyMap,
     provider_index_to_priority |-> EmptyMap,
     provider_names_contains |-> EmptyMap]

\* config.rs:42-64  SortRules::from, one iteration of `for rule in rules`
InsertRule(rules, rule) ==
    IF rule.type = "node_name"
    THEN [rules EXCEPT !.node_name_to_priority = MapInsert(@, rule.name, rule.priority)]
    ELSE IF rule.type = "node_name_contains"
    THEN [rules EXCEPT !.node_names_contains = MapInsert(@, rule.contains, rule.priority)]
    ELSE IF rule.type = "provider_name"
    THEN [rules EXCEPT !.provider_name_to_priority =
                            MapInsert(@, rule.name, rule.priority)]
    ELSE IF rule.type = "provider_index"
    THEN [rules EXCEPT !.provider_index_to_priority =
                            MapInsert(@, rule.index, rule.priority)]
    ELSE [rules EXCEPT !.provider_names_contains =
                            MapInsert(@, rule.contains, rule.priority)]

\* config.rs:89-95,115-121  the running maximum of the contains loop
KeepHighest_last(priority, p) == Some(p)

KeepHighest(priority, p) ==
    IF priority # None
    THEN IF p > priority[1] THEN Some(p) ELSE priority
    ELSE Some(p)

\* config.rs:84-100,110-126  get_priority_by_node_name_contains and
\* get_priority_by_provider_name_contains: the loop over the table, taken in
\* the iteration order `order` of the HashMap
RECURSIVE get_priority_by_contains(_, _, _, _)
get_priority_by_contains(table, name, order, priority) ==
    IF order = <<>> THEN priority
    ELSE get_priority_by_contains(table, name, Tail(order),
            IF Contains(name, Head(order))
            THEN KeepHighest(priority, table[Head(order)])
            ELSE priority)

\* an iteration order of a HashMap: its keys in some order
Orders(table) ==
    {o \in [1..Cardinality(DOMAIN table) -> DOMAIN table] :
        \A i, j \in DOMAIN o : i # j => o[i] # o[j]}

\* config.rs:128-163  SortRules::get_node_priority; o1 and o2 are the iteration
\* orders of the two contains tables
get_node_priority_containsFirst(rules, o1, o2, node_name, provider_name, provider_index) ==
    LET byContains == IF node_name # None
                      THEN get_priority_by_contains(rules.node_names_contains,
                                                    node_name[1], o1, None)
                      ELSE None
        byName == IF node_name # None
                  THEN MapGet(rules.node_name_to_priority, node_name[1]) ELSE None
        byProvider == IF provider_name # None
                      THEN MapGet(rules.provider_name_to_priority, provider_name[1])
                      ELSE None
        byIndex == IF provider_index # None
                   THEN MapGet(rules.provider_index_to_priority, provider_index[1])
                   ELSE None
        byProviderContains ==
            IF provider_name # None
            THEN get_priority_by_contains(rules.provider_names_contains,
                                          provider_name[1], o2, None)
            ELSE None
    IN IF byContains # None THEN byContains[1]
       ELSE IF byName # None THEN byName[1]
       ELSE IF byProviderContains # None THEN byProviderContains[1]
       ELSE IF byProvider # None THEN byProvider[1]
       ELSE IF byIndex # None THEN byIndex[1]
       ELSE 0

get_node_priority(rules, o1, o2, node_name, provider_name, provider_index) ==
    LET byName == IF node_name # None
                  THEN MapGet(rules.node_name_to_priority, node_name[1]) ELSE None
        byContains == IF node_name # None
                      THEN get_priority_by_contains(rules.node_names_contains,
                                                    node_name[1], o1, None)
                      ELSE None
        byProvider == IF provider_name # None
                      THEN MapGet(rules.provider_name_to_priority, provider_name[1])
                      ELSE None
        byIndex == IF provider_index # None
                   THEN MapGet(rules.provider_index_to_priority, provider_index[1])
                   ELSE None
        byProviderContains ==
            IF provider_name # None
            THEN get_priority_by_contains(rules.provider_names_contains,
                                          provider_name[1], o2, None)
            ELSE None
    IN IF byName # None THEN byName[1]
       ELSE IF byContains # None THEN byContains[1]
       ELSE IF byProvider # None THEN byProvider[1]
       ELSE IF byIndex # None THEN byIndex[1]
       ELSE IF byProviderContains # None THEN byProviderContains[1]
       ELSE 0

(***************************************************************************)
(* template/mod.rs  TemplateArgs::new                                      *)
(***************************************************************************)
\* provider/mod.rs  Providers::get_name
provider_get_name(provider) == provider.name

\* template/mod.rs:55-59,85-89,126-130  the comparator of the three sorts, on
\* the two priorities and the two nodes
NodeOrdering_ascending(priority_a, priority_b, a, b) ==
    IF priority_a # priority_b
    THEN IntCmp(priority_a, priority_b)
    ELSE StrCmp(get_display_name(a), get_display_name(b))

NodeOrdering_priorityOnly(priority_a, priority_b, a, b) ==
    IntCmp(priority_b, priority_a)

NodeOrdering(priority_a, priority_b, a, b) ==
    IF priority_a # priority_b
    THEN IntCmp(priority_b, priority_a)
    ELSE StrCmp(get_display_name(a), get_display_name(b))

\* the permutations of 1..n
Perms(n) == {p \in [1..n -> 1..n] : \A i, j \in 1..n : i # j => p[i] # p[j]}

\* the entries xs in the orders that leave no earlier entry greater than a
\* later one; ps holds the priorities of the entries
SortedOrders(xs, ps) ==
    {[i \in 1..Len(xs) |-> xs[q[i]]] : q \in
        {p \in Perms(Len(xs)) :
            \A i, j \in 1..Len(xs) : i < j =>
                NodeOrdering(ps[p[i]], ps[p[j]], xs[p[i]].node, xs[p[j]].node) # "Greater"}}

\* par_sort_unstable_by: the results the sort may leave for the entries xs,
\* each a record [node, provider_name, provider_index].  The sort is not
\* stable: entries the comparator holds equal end in any order.
SortUnstable(rules, o1, o2, xs) ==
    SortedOrders(xs, [i \in 1..Len(xs) |->
                        get_node_priority(rules, o1, o2, get_name(xs[i].node),
                                          xs[i].provider_name, xs[i].provider_index)])

\* template/mod.rs:45-47,103-107  the nodes of provider `index` with the
\* provider's name and index
WithProviderInfos(provs, nodes, index) ==
    [i \in 1..Len(nodes) |->
        [node |-> nodes[i], provider_name |-> provider_get_name(provs[index + 1]),
         provider_index |-> Some(index)]]

\* template/mod.rs:109  standalone nodes carry no provider name and no index
StandaloneInfos_firstProvider(standalone_nodes) ==
    [i \in 1..Len(standalone_nodes) |->
        [node |-> standalone_nodes[i], provider_name |-> None, provider_index |-> Some(0)]]

StandaloneInfos(standalone_nodes) ==
    [i \in 1..Len(standalone_nodes) |->
        [node |-> standalone_nodes[i], provider_name |-> None, provider_index |-> None]]

RECURSIVE Flatten(_)
Flatten(lists) == IF lists = <<>> THEN <<>> ELSE Head(lists) \o Flatten(Tail(lists))

NodesOf(xs) == [i \in 1..Len(xs) |-> xs[i].node]

\* template/mod.rs:66-97  collect into the HashMap: a later provider of the
\* same name replaces the earlier entry
RECURSIVE CollectByName(_, _, _)
CollectByName(provs, lists, k) ==
    IF k = 0 THEN EmptyMap
    ELSE IF provider_get_name(provs[k]) # None
         THEN MapInsert(CollectByName(provs, lists, k - 1),
                        provider_get_name(provs[k])[1], lists[k])
         ELSE CollectByName(provs, lists, k - 1)

\* template/mod.rs:41-64,66-97  one sort per provider list
RECURSIVE SortEach(_, _, _, _)
SortEach(rules, o1, o2, infos) ==
    IF infos = <<>> THEN {<<>>}
    ELSE {<<h>> \o t : h \in SortUnstable(rules, o1, o2, Head(infos)),
                       t \in SortEach(rules, o1, o2, Tail(infos))}

\* template/mod.rs:35-145  TemplateArgs::new: the values it may return.  The
\* three sorts run separately, so each makes its own choice among tied nodes.
TemplateArgs_new(provs, nodes_by_providers, standalone_nodes, rules) ==
    LET n == Len(nodes_by_providers)
        infos == [k \in 1..n |-> WithProviderInfos(provs, nodes_by_providers[k], k - 1)]
        collected == Flatten(infos) \o StandaloneInfos(standalone_nodes)
    IN UNION {
         {[providers |-> provs,
           nodes_by_providers |-> [k \in 1..n |-> NodesOf(byProvider[k])],
           nodes_by_provider_names |->
               CollectByName(provs, [k \in 1..n |-> NodesOf(byName[k])], n),
           all_nodes_with_extra_infos |-> all,
           all_nodes |-> NodesOf(all)] :
             byProvider \in SortEach(rules, o1, o2, infos),
             byName \in SortEach(rules, o1, o2, infos),
             all \in SortUnstable(rules, o1, o2, collected)} :
         o1 \in Orders(rules.node_names_contains),
         o2 \in Orders(rules.provider_names_contains)}

(***************************************************************************)
(* node/hysteria.rs, node/hysteria2.rs  Speed                              *)
(***************************************************************************)
\* str::ends_with
EndsWith(str, pat) ==
    /\ Len(pat) <= Len(str)
    /\ SubSeq(str, Len(str) - Len(pat) + 1, Len(str)) = pat

\* str::starts_with
StartsWith(str, pat) ==
    /\ Len(pat) <= Len(str)
    /\ SubSeq(str, 1, Len(pat)) = pat

\* str::trim_end_matches: the suffix is removed as often as it matches
RECURSIVE TrimEndMatches(_, _)
TrimEndMatches(str, pat) ==
    IF pat # <<>> /\ EndsWith(str, pat)
    THEN TrimEndMatches(SubSeq(str, 1, Len(str) - Len(pat)), pat)
    ELSE str

\* the value of a string of decimal digits
RECURSIVE DigitsValue(_)
DigitsValue(str) ==
    IF str = <<>> THEN 0
    ELSE 10 * DigitsValue(SubSeq(str, 1, Len(str) - 1)) + (str[Len(str)] - 48)

\* str::parse::<u32>, str::parse::<u64>: an optional "+" and at least one digit
\* (the sampled numbers stay far below the overflow of either type)
ParseUnsigned(str) ==
    LET digits == IF str # <<>> /\ str[1] = 43 THEN Tail(str) ELSE str
    IN IF digits # <<>> /\ \A i \in DOMAIN digits : digits[i] \in 48..57
       THEN Some(DigitsValue(digits))
       ELSE None

\* node/hysteria.rs:95-149, node/hysteria2.rs:80-118  Speed::to_mbps: one loop
\* per suffix list, run in the order bit, kilo, mega, giga, tera; each loop
\* returns at the first suffix of its list the text ends with
to_mbps(s) ==
    LET bit == << <<32, 98, 112, 115>>, <<98, 112, 115>>, <<32, 98>>, <<98>> >>
        \* [" xbps", "xbps", " xb", "xb", " x", "x"] for x = k, m, g, t
        family(x) == << <<32, x, 98, 112, 115>>, <<x, 98, 112, 115>>, <<32, x, 98>>,
                        <<x, 98>>, <<32, x>>, <<x>> >>
        kilo == family(107)
        mega == family(109)
        giga == family(103)
        tera == family(116)
        first(suffixes) ==
            IF \E i \in DOMAIN suffixes : EndsWith(s.text, suffixes[i])
            THEN CHOOSE i \in DOMAIN suffixes :
                    /\ EndsWith(s.text, suffixes[i])
                    /\ \A j \in 1..(i - 1) : ~EndsWith(s.text, suffixes[j])
            ELSE 0
        \* text.trim_end_matches(x).parse().ok()
        parsed(suffixes) ==
            ParseUnsigned(TrimEndMatches(s.text, suffixes[first(suffixes)]))
    IN  IF s.kind = "Mbps" THEN Some(s.mbps)
        ELSE IF first(bit) # 0
        THEN IF parsed(bit) = None THEN None
             ELSE Some((parsed(bit)[1] \div 1024) \div 1024)
        ELSE IF first(kilo) # 0
        THEN IF parsed(kilo) = None THEN None ELSE Some(parsed(kilo)[1] \div 1024)
        ELSE IF first(mega) # 0
        THEN parsed(mega)
        ELSE IF first(giga) # 0
        THEN IF parsed(giga) = None THEN None ELSE Some(parsed(giga)[1] * 1024)
        ELSE IF first(tera) # 0
        THEN IF parsed(tera) = None THEN None
             ELSE Some((parsed(tera)[1] * 1024) * 1024)
        ELSE None

\* node/hysteria.rs:151-157, node/hysteria2.rs:120-126  Speed::to_text
to_text(s) ==
    IF s.kind = "Text" THEN s.text
    ELSE Digits(s.mbps) \o <<32, 109, 98, 112, 115>>

(***************************************************************************)
(* node/ss.rs  Method, Plugin                                              *)
(***************************************************************************)
\* node/ss.rs:227-253  Method::get_alias
get_alias(method) ==
    MethodAliases[CHOOSE i \in DOMAIN MethodAliases : MethodAliases[i][2] = method][1]

is_aead_2022_cipher_never(method) == FALSE

\* node/ss.rs:315-323  Method::is_aead_2022_cipher
is_aead_2022_cipher(method) ==
    method \in {"Ss2022Blake3Aes128Gcm", "Ss2022Blake3Aes256Gcm",
                "Ss2022Blake3Chacha20Poly1305", "Ss2022Blake3Chacha8Poly1305"}

\* node/ss.rs:377-410  Plugin::get_opts_string; todo!() panics.  A BTreeMap
\* iterates in key order: the sampled maps of an Unknown plugin hold one entry.
get_opts_string(plugin) ==
    LET \* Itertools::join
        Join(parts, sep) ==
            LET joined[n \in 0..Len(parts)] ==
                    IF n = 0 THEN ""
                    ELSE IF n = 1 THEN parts[1]
                    ELSE (joined[n - 1] \o sep) \o parts[n]
            IN joined[Len(parts)]
    IN
    IF plugin.kind = "SimpleObfs"
    THEN LET o == plugin.opts
             part(key, value) == IF value = None THEN <<>>
                                 ELSE <<(key \o "=") \o value[1]>>
         IN IF o.obfs = None /\ o.host = None /\ o.uri = None THEN Ok(None)
            ELSE Ok(Some(Join(part("obfs", o.obfs) \o part("obfs-host", o.host)
                              \o part("obfs-uri", o.uri), ";")))
    ELSE IF plugin.kind \in {"GoQuiet", "Cloak", "Kcptun", "V2ray"} THEN Panic
    ELSE IF plugin.plugin_opts = None THEN Ok(None)
    ELSE LET map == plugin.plugin_opts[1]
             key == CHOOSE k \in DOMAIN map : TRUE
         IN Ok(Some(Join(<<(key \o "=") \o map[key]>>, ";")))

(***************************************************************************)
(* template/adaptors/clash.rs                                              *)
(***************************************************************************)
\* template/adaptors/clash.rs:49-64, 78-91  TryFrom<SsPlugin> for ClashSsPlugin
ClashSsPlugin_try_from(plugin) ==
    IF plugin.kind = "SimpleObfs"
    THEN IF plugin.opts.uri # None THEN Err("UriUnsupported")
         ELSE Ok([plugin |-> "obfs",
                  plugin_opts |-> [mode |-> plugin.opts.obfs, host |-> plugin.opts.host]])
    ELSE Err("unsupported plugin")

\* the arm of Clash::convert_node for Node::Hysteria2: the match of
\* template/adaptors/clash.rs:137-184 has none; the specification lets legacy
\* Clash represent Shadowsocks and ShadowsocksR only
Clash_convert_hysteria2(node) == Ok(None)

\* template/adaptors/clash.rs:136-185  Clash::convert_node
Clash_convert_node(node) ==
    IF node.type = "ss"
    THEN LET proxy(plugin) ==
                 [type |-> "ss", name |-> get_display_name(node), server |-> node.server,
                  port |-> node.server_port, cipher |-> get_alias(node.method),
                  password |-> node.password, udp |-> node.udp, plugin |-> plugin]
         IN IF is_aead_2022_cipher(node.method) THEN Ok(None)
            ELSE IF node.plugin # None
            THEN LET clash_ss_plugin == ClashSsPlugin_try_from(node.plugin[1])
                 IN IF clash_ss_plugin.tag = "ok"
                    THEN Ok(Some(proxy(Some(clash_ss_plugin.val))))
                    ELSE Ok(None)
            ELSE Ok(Some(proxy(None)))
    ELSE IF node.type = "ssr"
    THEN Ok(Some([type |-> "ssr", name |-> get_display_name(node),
                  server |-> node.server, port |-> node.server_port,
                  cipher |-> node.method, password |-> node.password,
                  obfs |-> node.obfs, obfs_param |-> node.obfs_param,
                  protocol |-> node.protocol, protocol_param |-> node.protocol_param,
                  udp |-> None]))
    ELSE IF node.type = "hysteria" THEN Ok(None)
    ELSE IF node.type = "hysteria2" THEN Clash_convert_hysteria2(node)
    ELSE Ok(None)

(***************************************************************************)
(* template/adaptors/clash_meta.rs                                         *)
(***************************************************************************)
\* template/adaptors/clash_meta.rs:108-123, 137-150  TryFrom<SsPlugin> for
\* ClashMetaSsPlugin
ClashMetaSsPlugin_try_from(plugin) ==
    IF plugin.kind = "SimpleObfs"
    THEN IF plugin.opts.uri # None THEN Err("UriUnsupported")
         ELSE Ok([plugin |-> "obfs",
                  plugin_opts |-> [mode |-> plugin.opts.obfs, host |-> plugin.opts.host]])
    ELSE Err("unsupported plugin")

ClashMeta_ports_never(port) == None

\* template/adaptors/clash_meta.rs:253-256, 279-282  the ports field
ClashMeta_ports(port) ==
    IF port.kind = "Single" THEN None
    ELSE Some((Digits(port.start) \o <<45>>) \o Digits(port.end))

\* template/adaptors/clash_meta.rs:206-314  ClashMeta::convert_node
ClashMeta_convert_node(node) ==
    IF node.type = "ss"
    THEN LET proxy(plugin) ==
                 [type |-> "ss", name |-> get_display_name(node), server |-> node.server,
                  port |-> node.server_port, cipher |-> get_alias(node.method),
                  password |-> node.password, udp |-> node.udp, plugin |-> plugin]
         IN IF node.plugin # None
            THEN LET clash_ss_plugin == ClashMetaSsPlugin_try_from(node.plugin[1])
                 IN IF clash_ss_plugin.tag = "ok"
                    THEN Ok(Some(proxy(Some(clash_ss_plugin.val))))
                    ELSE Ok(None)
            ELSE Ok(Some(proxy(None)))
    ELSE IF node.type = "ssr"
    THEN Ok(Some([type |-> "ssr", name |-> get_display_name(node),
                  server |-> node.server, port |-> node.server_port,
                  cipher |-> node.method, password |-> node.password,
                  obfs |-> node.obfs, obfs_param |-> node.obfs_param,
                  protocol |-> node.protocol, protocol_param |-> node.protocol_param,
                  udp |-> None]))
    ELSE IF node.type = "hysteria"
    THEN LET text(s) == IF s.kind = "Text" THEN s.text
                        ELSE Digits(s.mbps) \o <<32, 77, 98, 112, 115>>
         IN Ok(Some([type |-> "hysteria", name |-> get_display_name(node),
                     server |-> node.server, port |-> get_start_port(node.port),
                     ports |-> ClashMeta_ports(node.port),
                     auth_str |-> node.auth, obfs |-> node.obfs,
                     up |-> text(node.up), down |-> text(node.down)]))
    ELSE IF node.type = "hysteria2"
    THEN Ok(Some([type |-> "hysteria2", name |-> get_display_name(node),
                  server |-> node.server, port |-> get_start_port(node.port),
                  ports |-> ClashMeta_ports(node.port),
                  password |-> node.auth,
                  up |-> IF node.up = None THEN None ELSE Some(to_text(node.up[1])),
                  down |-> IF node.down = None THEN None
                           ELSE Some(to_text(node.down[1]))]))
    ELSE Ok(Some([type |-> "wireguard", name |-> get_display_name(node),
                  server |-> node.server, port |-> node.port,
                  private_key |-> node.private_key, public_key |-> node.public_key]))

(***************************************************************************)
(* template/adaptors/sing_box.rs                                           *)
(***************************************************************************)
\* template/adaptors/sing_box.rs:125-270  SingBox::convert_node.  The fields of
\* a struct literal are evaluated in order: the plugin match returns None
\* before plugin_opts is computed, and a panic of get_opts_string unwinds
\* out of convert_node.
SingBox_convert_node(node) ==
    LET \* sing_box.rs:173-176, 218-221  the server_port field
        server_port(port) == IF port.kind = "Single" THEN Some(port.port) ELSE None
        \* sing_box.rs:177-182, 222-227  the server_ports field
        server_ports(port) ==
            IF port.kind = "Single" THEN None
            ELSE Some(<<(Digits(port.start) \o <<58>>) \o Digits(port.end)>>)
    IN
    IF node.type = "ss"
    THEN IF node.plugin # None /\ node.plugin[1].kind \notin {"SimpleObfs", "V2ray"}
         THEN Ok(None)
         ELSE LET plugin_opts == IF node.plugin = None THEN Ok(None)
                                 ELSE get_opts_string(node.plugin[1])
              IN IF plugin_opts.tag = "panic" THEN Panic
                 ELSE Ok(Some([type |-> "shadowsocks", tag |-> get_display_name(node),
                       server |-> node.server, server_port |-> node.server_port,
                       method |-> get_alias(node.method), password |-> node.password,
                       plugin |-> IF node.plugin = None THEN None
                                  ELSE IF node.plugin[1].kind = "SimpleObfs"
                                  THEN Some("obfs-local")
                                  ELSE Some("v2ray-plugin"),
                       plugin_opts |-> plugin_opts.val,
                       network |-> IF node.udp = Some(FALSE) THEN Some("tcp") ELSE None,
                       udp_over_tcp |-> node.udp_over_tcp]))
    ELSE IF node.type = "ssr"
    THEN Ok(Some([type |-> "shadowsocksr", tag |-> get_display_name(node),
                  server |-> node.server, server_port |-> node.server_port,
                  method |-> node.method, password |-> node.password,
                  obfs |-> node.obfs, obfs_param |-> node.obfs_param,
                  protocol |-> node.protocol, protocol_param |-> node.protocol_param,
                  network |-> None]))
    ELSE IF node.type = "hysteria"
    THEN LET text(s) == IF s.kind = "Text" THEN Some(s.text) ELSE None
             mbps(s) == IF s.kind = "Text" THEN None ELSE Some(s.mbps)
         IN Ok(Some([type |-> "hysteria", tag |-> get_display_name(node),
                     server |-> node.server,
                     server_port |-> server_port(node.port),
                     server_ports |-> server_ports(node.port),
                     up |-> text(node.up), up_mbps |-> mbps(node.up),
                     down |-> text(node.down), down_mbps |-> mbps(node.down),
                     obfs |-> node.obfs, auth_str |-> node.auth]))
    ELSE IF node.type = "hysteria2"
    THEN LET mbps(s) == IF s = None THEN None ELSE to_mbps(s[1])
         IN Ok(Some([type |-> "hysteria2", tag |-> get_display_name(node),
                     server |-> node.server,
                     server_port |-> server_port(node.port),
                     server_ports |-> server_ports(node.port),
                     up_mbps |-> mbps(node.up), down_mbps |-> mbps(node.down),
                     password |-> node.auth]))
    ELSE Ok(Some([type |-> "wireguard", tag |-> get_display_name(node),
                  server |-> node.server, server_port |-> node.port,
                  private_key |-> node.private_key,
                  peer_public_key |-> node.public_key]))

(***************************************************************************)
(* template/adaptors/surge.rs                                              *)
(***************************************************************************)
udp_relay_ignoring_udp_over_tcp(node) == node.udp = Some(TRUE)

\* template/adaptors/surge.rs:118-120  udp_relay of a Shadowsocks node
udp_relay(node) == node.udp = Some(TRUE) /\ node.udp_over_tcp # Some(TRUE)

\* template/adaptors/surge.rs:97-156  Surge::convert_node
Surge_convert_node(node) ==
    LET \* template/functions/get_surge_wg_nodes.rs:15-19  gen_wireguard_node_id:
        \* the hex digest of the node's hash, one value per node
        gen_wireguard_node_id(n) == [blake3 |-> n]
    IN
    IF node.type = "ss"
    THEN IF node.plugin # None /\ node.plugin[1].kind # "SimpleObfs" THEN Ok(None)
         ELSE Ok(Some([name |-> get_display_name(node),
                       proxy |-> [type |-> "ss", host |-> node.server,
                                  port |-> node.server_port,
                                  encrypt_method |-> get_alias(node.method),
                                  password |-> node.password,
                                  obfs |-> IF node.plugin = None THEN None
                                           ELSE Some(node.plugin[1].opts),
                                  udp_relay |-> udp_relay(node)]]))
    ELSE IF node.type = "ssr" THEN Ok(None)
    ELSE IF node.type = "hysteria" THEN Ok(None)
    ELSE IF node.type = "hysteria2"
    THEN Ok(Some([name |-> get_display_name(node),
                  proxy |-> [type |-> "hysteria2",
                             host |-> IF node.tls.sni = None THEN node.server
                                      ELSE node.tls.sni[1],
                             port |-> get_port(node),
                             password |-> IF node.auth = None THEN "" ELSE node.auth[1],
                             download_bandwidth |->
                                 IF node.down = None THEN None
                                 ELSE to_mbps(node.down[1])]]))
    ELSE Ok(Some([name |-> get_display_name(node),
                  proxy |-> [type |-> "wireguard",
                             section_name |-> gen_wireguard_node_id(node)]]))

(***************************************************************************)
(* template/adaptors/mod.rs                                                *)
(***************************************************************************)
\* template/adaptors/mod.rs:97-102  enum Adaptors, by ADAPTOR_NAME
AdaptorNames == {"clash", "clash meta", "sing-box", "surge"}

\* the dispatch of enum Adaptors to Adaptor::convert_node
convert_node(adaptor, node) ==
    IF adaptor = "clash" THEN Clash_convert_node(node)
    ELSE IF adaptor = "clash meta" THEN ClashMeta_convert_node(node)
    ELSE IF adaptor = "sing-box" THEN SingBox_convert_node(node)
    ELSE Surge_convert_node(node)

\* template/adaptors/mod.rs:70-95  nodes_to_string: a panic of convert_node
\* unwinds out of it
nodes_to_string(adaptor, nodes, options) ==
    LET results == [i \in DOMAIN nodes |-> convert_node(adaptor, nodes[i])]
        \* Iterator::filter_map over the results of convert_node
        IsSome(result) == result.val # None
        kept == SelectSeq(results, IsSome)
        converted == [i \in DOMAIN kept |-> kept[i].val[1]]
        \* serialize_nodes of the four adaptors: the converted nodes, collected
        \* and written in order; SingBox::serialize_nodes writes "" for none
        \* and strips the array brackets when the options say so
        serialize_nodes ==
            IF adaptor = "sing-box" /\ converted = <<>>
            THEN [format |-> "empty", brackets |-> FALSE, entries |-> <<>>]
            ELSE [format |-> IF adaptor = "sing-box" THEN "json"
                             ELSE IF adaptor = "surge" THEN "lines" ELSE "yaml",
                  brackets |-> adaptor # "sing-box" \/ options.include_array_brackets,
                  entries |-> converted]
    IN IF \E i \in DOMAIN results : results[i].tag = "panic" THEN Panic
       ELSE Ok(serialize_nodes)

support_node_any(adaptor, node) ==
    IF convert_node(adaptor, node).tag = "panic" THEN Panic ELSE Ok(TRUE)

\* template/adaptors/mod.rs:104-114  Adaptors::support_node
support_node(adaptor, node) ==
    LET result == convert_node(adaptor, node)
    IN IF result.tag = "panic" THEN Panic ELSE Ok(result.val # None)

(***************************************************************************)
(* template/functions/mod.rs, get_nodes.rs, get_nodes_names.rs             *)
(* A serde_json Value is [t |-> "string" | "number" | "bool" | "array",    *)
(* v |-> its content]; the arguments of a call are a record of             *)
(* Option<Value>, one field per argument name.                             *)
(***************************************************************************)
name_tests_positive(args, name) ==
    /\ args.name_starts_with # None => StartsWith(name, args.name_starts_with[1].v)
    /\ args.name_ends_with # None => EndsWith(name, args.name_ends_with[1].v)
    /\ args.name_contains # None => Contains(name, args.name_contains[1].v)

\* template/functions/mod.rs:172-208  the tests on the name of a node
name_tests(args, name) ==
    /\ args.name_not_starts_with # None =>
          ~StartsWith(name, args.name_not_starts_with[1].v)
    /\ args.name_not_ends_with # None => ~EndsWith(name, args.name_not_ends_with[1].v)
    /\ args.name_not_contains # None => ~Contains(name, args.name_not_contains[1].v)
    /\ args.name_starts_with # None => StartsWith(name, args.name_starts_with[1].v)
    /\ args.name_ends_with # None => EndsWith(name, args.name_ends_with[1].v)
    /\ args.name_contains # None => Contains(name, args.name_contains[1].v)

name_filter_display_name(args, node) == name_tests(args, get_display_name(node))

\* template/functions/mod.rs:170-212  the closure handed to Iterator::filter
name_filter(args, node) ==
    IF get_name(node) # None THEN name_tests(args, get_name(node)[1]) ELSE FALSE

conflicting_args_never(args) == FALSE

\* template/functions/mod.rs:24  both `provider` and `provider_index` are given
conflicting_args(args) == args.provider # None /\ args.provider_index # None

\* template/functions/mod.rs:19-214  get_filtered_nodes_by_function_args
get_filtered_nodes_by_function_args(template_args, args) ==
    LET by_name(name) == MapGet(template_args.nodes_by_provider_names, name)
        by_index(index) ==
            IF index + 1 \in DOMAIN template_args.nodes_by_providers
            THEN Some(template_args.nodes_by_providers[index + 1])
            ELSE None
        \* Value::as_u64, Value::is_u64
        is_u64(value) == value.t = "number" /\ value.v >= 0
        \* the chained iterators of the array forms
        chain(values, lookup(_)) ==
            IF \E i \in DOMAIN values : lookup(values[i].v) = None
            THEN Err("doesn't exists")
            ELSE Ok(Flatten([i \in DOMAIN values |-> lookup(values[i].v)[1]]))
        scope ==
            IF conflicting_args(args)
            THEN Err("two args that conflict with each other")
            ELSE IF args.provider # None
            THEN LET value == args.provider[1]
                 IN IF value.t = "string"
                    THEN IF by_name(value.v) # None THEN Ok(by_name(value.v)[1])
                         ELSE Err("doesn't exists")
                    ELSE IF value.t = "array"
                    THEN IF value.v = <<>> THEN Err("the array is empty")
                         ELSE IF \A i \in DOMAIN value.v : value.v[i].t = "string"
                         THEN chain(value.v, by_name)
                         ELSE Err("expected String or Array of Strings")
                    ELSE Err("expected String or Array of Strings")
            ELSE IF args.provider_index # None
            THEN LET value == args.provider_index[1]
                 IN IF is_u64(value)
                    THEN IF by_index(value.v) # None THEN Ok(by_index(value.v)[1])
                         ELSE Err("doesn't exists")
                    ELSE IF value.t = "array"
                    THEN IF value.v = <<>> THEN Err("the array is empty")
                         ELSE IF \A i \in DOMAIN value.v : is_u64(value.v[i])
                         THEN chain(value.v, by_index)
                         ELSE Err("expected Integer or Array of Integers")
                    ELSE Err("expected Integer or Array of Integers")
            ELSE Ok(template_args.all_nodes)
        \* create_string_arg!
        string_args == <<args.name_starts_with, args.name_not_starts_with,
                         args.name_ends_with, args.name_not_ends_with,
                         args.name_contains, args.name_not_contains>>
        keep(node) == name_filter(args, node)
    IN IF scope.tag # "ok" THEN scope
       ELSE IF \E i \in DOMAIN string_args :
                   string_args[i] # None /\ string_args[i][1].t # "string"
       THEN Err("expected String")
       ELSE IF \A i \in DOMAIN string_args : string_args[i] = None THEN scope
       ELSE Ok(SelectSeq(scope.val, keep))

\* template/adaptors/mod.rs:116-134  get_adaptor_from_args
get_adaptor_from_args(args) ==
    IF args.type # None /\ args.type[1].t = "string"
    THEN IF args.type[1].v \in AdaptorNames THEN Ok(Some(args.type[1].v))
         ELSE Err("Unknown adaptor name")
    ELSE Ok(None)

\* template/functions/get_nodes.rs:23-37  GetNodes::call, with
\* template/adaptors/mod.rs:27-44  NodesSerializationOptions::from_function_args
GetNodes_call(template_args, args) ==
    LET nodes == get_filtered_nodes_by_function_args(template_args, args)
        adaptor == get_adaptor_from_args(args)
        options ==
            IF args.include_array_brackets = None
            THEN Ok([include_array_brackets |-> TRUE])
            ELSE IF args.include_array_brackets[1].t = "bool"
            THEN Ok([include_array_brackets |-> args.include_array_brackets[1].v])
            ELSE Err("expected bool")
    IN IF nodes.tag # "ok" THEN nodes
       ELSE IF adaptor.tag # "ok" THEN adaptor
       ELSE IF adaptor.val # None
       THEN IF options.tag # "ok" THEN options
            ELSE LET text == nodes_to_string(adaptor.val[1], nodes.val, options.val)
                 IN IF text.tag = "panic" THEN Panic
                    ELSE Ok([t |-> "string", v |-> text.val])
       ELSE Ok([t |-> "array", v |-> nodes.val])

\* template/functions/get_nodes_names.rs:22-41  GetNodesNames::call
GetNodesNames_call(template_args, args) ==
    LET nodes == get_filtered_nodes_by_function_args(template_args, args)
        adaptor == get_adaptor_from_args(args)
        names(list) == [i \in DOMAIN list |-> [t |-> "string",
                                                v |-> get_display_name(list[i])]]
    IN IF nodes.tag # "ok" THEN nodes
       ELSE IF adaptor.tag # "ok" THEN adaptor
       ELSE IF adaptor.val # None
       THEN LET Supported(node) == support_node(adaptor.val[1], node).val
            IN IF \E i \in DOMAIN nodes.val :
                      support_node(adaptor.val[1], nodes.val[i]).tag = "panic"
               THEN Panic
               ELSE Ok([t |-> "array", v |-> names(SelectSeq(nodes.val, Supported))])
       ELSE Ok([t |-> "array", v |-> names(nodes.val)])

(***************************************************************************)
(* Idle values of the variable groups                                      *)
(***************************************************************************)
RenderIdle ==
    /\ templates = <<>>
    /\ queue = <<>>
    /\ output = EmptyMap
    /\ rendered = <<>>
    /\ written = <<>>
    /\ rpc = "idle"
    /\ lastStep = [kind |-> "start", tpl |-> 0]

MainIdle ==
    /\ mainPc = "idle"
    /\ providers = <<>>
    /\ taskPc = <<>>
    /\ taskContent = <<>>
    /\ taskNodes = <<>>
    /\ finishOrder = <<>>
    /\ nodesByProviders = None
    /\ templateArgs = None

DecodeIdle ==
    /\ dProvider = None
    /\ dContent = None
    /\ dResult = None

SortIdle ==
    /\ sort_rules = None
    /\ priorityCall = None
    /\ argsIn = None
    /\ argsOut = None
    /\ argsPrev = None

AdaptorIdle ==
    /\ adNodes = <<>>
    /\ adConvert = None
    /\ adString = None

SpeedIdle ==
    /\ speed = None
    /\ speedText = None
    /\ speedMbps = None

FunctionIdle == fnCall = <<>>

(***************************************************************************)
(* SpecRender: one call of RenderEngine::render on a fresh engine          *)
(***************************************************************************)
InitRender ==
    /\ templates \in TemplateLists
    /\ queue = [i \in 1..Len(templates) |-> i]
    /\ output = EmptyMap
    /\ rendered = <<>>
    /\ written = <<>>
    /\ rpc = "running"
    /\ lastStep = [kind |-> "start", tpl |-> 0]
    /\ MainIdle
    /\ DecodeIdle
    /\ SortIdle
    /\ AdaptorIdle
    /\ SpeedIdle
    /\ FunctionIdle

notRenderVars == <<mainVars, decodeVars, sortVars, adaptorVars, speedVars, functionVars>>

NextRender ==
    \/ Requeue /\ UNCHANGED notRenderVars
    \/ RenderNamed /\ UNCHANGED notRenderVars
    \/ RenderUnnamed /\ UNCHANGED notRenderVars
    \/ RenderReturnOk /\ UNCHANGED notRenderVars

SpecRender == InitRender /\ [][NextRender]_vars

\* render() is a sequential loop: it keeps taking iterations until it returns
FairRender == SpecRender /\ WF_vars(NextRender)

(***************************************************************************)
(* SpecDecode: one call of Provider::parse_nodes_from_content              *)
(***************************************************************************)
MaxEntries == 3

\* ss:// links as url::Url sees them
LinkSs ==
    [text |-> "url", scheme |-> "ss", server |-> Some(StrHost), port |-> Some(8888),
     method |-> "aes-128-gcm", password |-> "test", plugin |-> None,
     fragment |-> Some(StrA)]
LinkSsBadMethod == [LinkSs EXCEPT !.method = "aes-128-xyz"]

\* ssr:// links as url::Url sees them
LinkSsr ==
    [text |-> "url", scheme |-> "ssr",
     blob |-> Some([base64 |-> TRUE, nfields |-> 6, server |-> StrHost,
                    port |-> Some(1234), protocol |-> "auth_aes128_md5",
                    method |-> "aes-128-cfb", obfs |-> "tls1.2_ticket_auth",
                    password |-> Some("aaabbb"),
                    query |-> Some([remarks |-> Some(StrAB)])])]
LinkSsrFewFields == [LinkSsr EXCEPT !.blob[1].nfields = 5]

\* a link of another scheme, a line that is no Url
LinkOther == [text |-> "url", scheme |-> "vmess"]
LineGarbage == [text |-> "garbage"]

\* the lines of a subscription: the links above, further ss:// and ssr://
\* links, and an empty line
SsrLines ==
    LET LinkSsObfs ==
            [LinkSs EXCEPT !.method = "rc4-md5", !.fragment = Some(StrB),
                !.plugin = Some([name |-> "obfs-local",
                                 opts |-> [k \in {"obfs"} |-> "http"]])]
        LinkSsNoPort == [LinkSs EXCEPT !.port = None]
        LinkSsBadPlugin ==
            [LinkSs EXCEPT
                !.plugin = Some([name |-> "obfs-local",
                                 opts |-> [k \in {"obfs"} |-> "quic"]])]
        LinkSsrNoQuery == [LinkSsr EXCEPT !.blob[1].query = None]
        LinkSsrBadBase64 == [LinkSsr EXCEPT !.blob[1].base64 = FALSE]
        LinkSsrBadPort == [LinkSsr EXCEPT !.blob[1].port = None]
        LineEmpty == [text |-> "empty"]
    IN
    {LinkSs, LinkSsObfs, LinkSsNoPort, LinkSsBadMethod, LinkSsBadPlugin,
     LinkSsr, LinkSsrNoQuery, LinkSsrBadBase64, LinkSsrFewFields, LinkSsrBadPort,
     LinkOther, LineGarbage, LineEmpty}

\* the proxies of a Clash subscription
ProxySs ==
    [type |-> "ss", name |-> StrA, server |-> StrHost, port |-> 8888,
     cipher |-> "aes-128-gcm", password |-> "test", udp |-> Some(TRUE),
     plugin |-> None, plugin_opts |-> None]

ClashProxies ==
    LET ProxySsObfs ==
            [ProxySs EXCEPT !.name = StrB, !.plugin = Some("obfs"),
                            !.plugin_opts = Some([k \in {"obfs"} |-> "tls"])]
        ProxySsBadCipher == [ProxySs EXCEPT !.cipher = "aes-128-xyz"]
        ProxySsBadPlugin ==
            [ProxySs EXCEPT !.plugin = Some("obfs"),
                            !.plugin_opts = Some([k \in {"obfs"} |-> "quic"])]
        ProxySsr ==
            [type |-> "ssr", name |-> StrAB, server |-> StrHost, port |-> 1234,
             cipher |-> "aes-128-cfb", password |-> "aaabbb", obfs |-> "plain",
             obfs_param |-> None, protocol |-> "origin", protocol_param |-> None,
             udp |-> None]
        ProxyUnknown == [type |-> "vmess"]
    IN
    {ProxySs, ProxySsObfs, ProxySsBadCipher, ProxySsBadPlugin, ProxySsr, ProxyUnknown}

SeqsUpTo(S, n) == UNION {[1..k -> S] : k \in 0..n}

SomeOptions == [ss_udp |-> Some(FALSE), ss_udp_over_tcp |-> Some(TRUE),
                ssr_udpport |-> Some(53), ssr_uot |-> Some(TRUE)]

DecodeProviders == [type : {"ssr", "clash"}, name : {None}, options : {NoOptions, SomeOptions}]

\* the contents a provider of the given type can be handed
Contents(type, n) ==
    IF type = "ssr"
    THEN {[base64 |-> FALSE, entries |-> <<>>]}
         \cup {[base64 |-> TRUE, entries |-> e] : e \in SeqsUpTo(SsrLines, n)}
    ELSE {[yaml |-> FALSE, entries |-> <<>>]}
         \cup {[yaml |-> TRUE, entries |-> e] : e \in SeqsUpTo(ClashProxies, n)}

InitDecode ==
    /\ \E p \in DecodeProviders :
        /\ dProvider = Some(p)
        /\ \E c \in Contents(p.type, MaxEntries) : dContent = Some(c)
    /\ dResult = None
    /\ RenderIdle
    /\ MainIdle
    /\ SortIdle
    /\ AdaptorIdle
    /\ SpeedIdle
    /\ FunctionIdle

\* provider/mod.rs:26  parse_nodes_from_content(&self, content)
ParseNodes ==
    /\ dProvider # None
    /\ dResult = None
    /\ \E r \in parse_nodes_from_content(dProvider[1], dContent[1]) : dResult' = Some(r)
    /\ UNCHANGED <<dProvider, dContent>>

NextDecode == ParseNodes /\ UNCHANGED <<renderVars, mainVars, sortVars,
                    adaptorVars, speedVars, functionVars>>

SpecDecode == InitDecode /\ [][NextDecode]_vars

(***************************************************************************)
(* SpecPriority: SortRules::from followed by calls of get_node_priority    *)
(***************************************************************************)
MaxRules == 2
MaxPriority == 2

Priorities == 0..MaxPriority

\* config.rs:16-22  SortRule
SortRule ==
    [type : {"node_name"}, name : {StrAB}, priority : Priorities]
    \cup [type : {"node_name_contains"}, contains : {StrA, StrB}, priority : Priorities]
    \cup [type : {"provider_name"}, name : {StrP}, priority : Priorities]
    \cup [type : {"provider_index"}, index : {0}, priority : Priorities]
    \cup [type : {"provider_name_contains"}, contains : {StrP, StrQ},
          priority : Priorities]

RuleCount(rules) ==
    Cardinality(DOMAIN rules.node_name_to_priority)
    + Cardinality(DOMAIN rules.node_names_contains)
    + Cardinality(DOMAIN rules.provider_name_to_priority)
    + Cardinality(DOMAIN rules.provider_index_to_priority)
    + Cardinality(DOMAIN rules.provider_names_contains)

InitPriority ==
    /\ sort_rules = Some(SortRules_empty)
    /\ priorityCall = None
    /\ argsIn = None
    /\ argsOut = None
    /\ argsPrev = None
    /\ RenderIdle
    /\ MainIdle
    /\ DecodeIdle
    /\ AdaptorIdle
    /\ SpeedIdle
    /\ FunctionIdle

\* config.rs:42-64  SortRules::from: the next rule of the list is inserted.
\* The tables are built before the first lookup and never change afterwards.
AddRule(candidates, max) ==
    /\ sort_rules # None
    /\ priorityCall = None
    /\ argsOut = None
    /\ RuleCount(sort_rules[1]) < max
    /\ \E rule \in candidates : sort_rules' = Some(InsertRule(sort_rules[1], rule))

\* config.rs:128-163  a call of get_node_priority
CallGetNodePriority ==
    /\ sort_rules # None
    /\ \E node_name \in {None, Some(StrAB), Some(StrA), Some(StrQ)},
          provider_name \in {None, Some(StrP), Some(StrPQ)},
          provider_index \in {None, Some(0), Some(1)},
          o1 \in Orders(sort_rules[1].node_names_contains),
          o2 \in Orders(sort_rules[1].provider_names_contains) :
            priorityCall' =
                Some([node_name |-> node_name, provider_name |-> provider_name,
                      provider_index |-> provider_index,
                      result |-> get_node_priority(sort_rules[1], o1, o2, node_name,
                                                   provider_name, provider_index)])
    /\ UNCHANGED sort_rules

NextPriority ==
    \/ /\ AddRule(SortRule, MaxRules)
       /\ UNCHANGED <<priorityCall, argsIn, argsOut, argsPrev>>
       /\ UNCHANGED <<renderVars, mainVars, decodeVars,
                    adaptorVars, speedVars, functionVars>>
    \/ /\ CallGetNodePriority
       /\ UNCHANGED <<argsIn, argsOut, argsPrev>>
       /\ UNCHANGED <<renderVars, mainVars, decodeVars,
                    adaptorVars, speedVars, functionVars>>

SpecPriority == InitPriority /\ [][NextPriority]_vars

(***************************************************************************)
(* SpecSort: TemplateArgs::new on the nodes of two providers and the       *)
(* standalone nodes, and again on the same nodes in another order          *)
(***************************************************************************)
MaxSortRules == 1
MaxNodes == 2

\* one rule of each kind
SortRuleSamples ==
    {[type |-> "node_name", name |-> StrAB, priority |-> 2],
     [type |-> "node_name_contains", contains |-> StrA, priority |-> 1],
     [type |-> "provider_name", name |-> StrP, priority |-> 1],
     [type |-> "provider_index", index |-> 0, priority |-> 2],
     [type |-> "provider_name_contains", contains |-> StrP, priority |-> 3]}

\* two nodes that differ only in the port, a node with another name and a
\* node without a name
NodeA1 == [type |-> "ss", remarks |-> Some(StrA), server |-> StrHost, server_port |-> 1]
NodeA2 == [type |-> "ss", remarks |-> Some(StrA), server |-> StrHost, server_port |-> 2]
NodeAB == [type |-> "ss", remarks |-> Some(StrAB), server |-> StrHost, server_port |-> 1]
NodeUnnamed == [type |-> "ss", remarks |-> None, server |-> StrHost, server_port |-> 1]

SortNodes == {NodeA1, NodeA2, NodeAB, NodeUnnamed}

\* an unnamed provider at index 0 and the provider "p" at index 1
SortProviders ==
    <<[type |-> "ssr", name |-> None, options |-> NoOptions],
      [type |-> "clash", name |-> Some(StrP), options |-> NoOptions]>>

NodeCount(in) == Len(Flatten(in.nodes_by_providers)) + Len(in.standalone_nodes)

InitSort ==
    /\ sort_rules = Some(SortRules_empty)
    /\ priorityCall = None
    /\ argsIn = Some([providers |-> SortProviders,
                      nodes_by_providers |-> [k \in 1..Len(SortProviders) |-> <<>>],
                      standalone_nodes |-> <<>>])
    /\ argsOut = None
    /\ argsPrev = None
    /\ RenderIdle
    /\ MainIdle
    /\ DecodeIdle
    /\ AdaptorIdle
    /\ SpeedIdle
    /\ FunctionIdle

\* main.rs:79-85  a provider has delivered one more node, or the
\* configuration lists one more standalone node
AddNode ==
    /\ argsOut = None
    /\ NodeCount(argsIn[1]) < MaxNodes
    /\ \E node \in SortNodes :
         \/ \E k \in 1..Len(argsIn[1].providers) :
              argsIn' = Some([argsIn[1] EXCEPT !.nodes_by_providers[k] = Append(@, node)])
         \/ argsIn' = Some([argsIn[1] EXCEPT !.standalone_nodes = Append(@, node)])
    /\ UNCHANGED <<sort_rules, priorityCall, argsOut, argsPrev>>

\* main.rs:87-94  TemplateArgs::new
NewTemplateArgs ==
    /\ argsOut = None
    /\ \E args \in TemplateArgs_new(argsIn[1].providers, argsIn[1].nodes_by_providers,
                                    argsIn[1].standalone_nodes, sort_rules[1]) :
         argsOut' = Some(args)
    /\ UNCHANGED <<sort_rules, priorityCall, argsIn, argsPrev>>

\* the orders in which the entries of a list may arrive
PermsOf(l) == {[i \in DOMAIN l |-> l[p[i]]] : p \in Perms(Len(l))}

\* the lists of `in`, each in another order
Reordered(in) ==
    {[in EXCEPT !.nodes_by_providers = f, !.standalone_nodes = st] :
        f \in {g \in [DOMAIN in.nodes_by_providers ->
                        UNION {PermsOf(l) : l \in Range(in.nodes_by_providers)}] :
                 \A k \in DOMAIN g : g[k] \in PermsOf(in.nodes_by_providers[k])},
        st \in PermsOf(in.standalone_nodes)}

\* main.rs:87-94  TemplateArgs::new in a second run, on the same nodes
\* delivered in another order; the first result is kept for comparison
NewTemplateArgsReordered ==
    /\ argsOut # None
    /\ argsPrev = None
    /\ \E in \in Reordered(argsIn[1]) :
         /\ argsIn' = Some(in)
         /\ \E args \in TemplateArgs_new(in.providers, in.nodes_by_providers,
                                         in.standalone_nodes, sort_rules[1]) :
              argsOut' = Some(args)
    /\ argsPrev' = Some([in |-> argsIn[1], out |-> argsOut[1]])
    /\ UNCHANGED <<sort_rules, priorityCall>>

NextSort ==
    \/ /\ AddRule(SortRuleSamples, MaxSortRules)
       /\ UNCHANGED <<priorityCall, argsIn, argsOut, argsPrev>>
       /\ UNCHANGED <<renderVars, mainVars, decodeVars,
                    adaptorVars, speedVars, functionVars>>
    \/ /\ AddNode
       /\ UNCHANGED <<renderVars, mainVars, decodeVars,
                    adaptorVars, speedVars, functionVars>>
    \/ /\ NewTemplateArgs
       /\ UNCHANGED <<renderVars, mainVars, decodeVars,
                    adaptorVars, speedVars, functionVars>>
    \/ /\ NewTemplateArgsReordered
       /\ UNCHANGED <<renderVars, mainVars, decodeVars,
                    adaptorVars, speedVars, functionVars>>

SpecSort == InitSort /\ [][NextSort]_vars

(***************************************************************************)
(* SpecMain: main() from the start of the provider tasks to its return     *)
(***************************************************************************)
MaxProviders == 2

MainProviders == [type : {"ssr", "clash"}, name : {None}, options : {NoOptions}]

\* bodies a subscription server may answer with
MainContents(type) ==
    IF type = "ssr"
    THEN {[base64 |-> FALSE, entries |-> <<>>],
          [base64 |-> TRUE, entries |-> <<LinkSs>>],
          [base64 |-> TRUE, entries |-> <<LinkSs, LinkSsr>>],
          [base64 |-> TRUE, entries |-> <<LinkSsr, LineGarbage, LinkSs>>],
          [base64 |-> TRUE, entries |-> <<LinkOther>>],
          [base64 |-> TRUE, entries |-> <<LinkSsrFewFields>>]}
    ELSE {[yaml |-> FALSE, entries |-> <<>>],
          [yaml |-> TRUE, entries |-> <<ProxySs>>]}

\* a template that requires the named template listed after it
MainTemplates ==
    <<[name |-> None, requires |-> {"a"}], [name |-> Some("a"), requires |-> {}]>>

\* main.rs:79-81  try_join_all(nodes_futures).await?: where main stands after
\* a poll that left the tasks at pcs.  The first Err ends the join at once and
\* `?` returns it; a panic of a task unwinds through main.
TryJoinAll_waitForAll(pcs) ==
    IF \E k \in DOMAIN pcs : pcs[k] \in {"fetch", "body"} THEN "fetching"
    ELSE "joined"

TryJoinAll(pcs) ==
    IF \E k \in DOMAIN pcs : pcs[k] = "panicked" THEN "panicked"
    ELSE IF \E k \in DOMAIN pcs : pcs[k] = "failed" THEN "error"
    ELSE IF \A k \in DOMAIN pcs : pcs[k] = "done" THEN "joined"
    ELSE "fetching"

\* main.rs:79-81  the Vec try_join_all yields once every future is Ok: the
\* outputs in the order of the futures (of config.providers), whatever the
\* order of completion
JoinedOutputs_completionOrder(nodes, order) == [i \in DOMAIN nodes |-> nodes[order[i]]]

JoinedOutputs(nodes, order) == nodes

InitMain ==
    /\ providers \in SeqsUpTo(MainProviders, MaxProviders)
    /\ taskPc = [k \in DOMAIN providers |-> "fetch"]
    /\ taskContent = [k \in DOMAIN providers |-> None]
    /\ taskNodes = [k \in DOMAIN providers |-> <<>>]
    /\ finishOrder = <<>>
    /\ mainPc = TryJoinAll(taskPc)
    /\ nodesByProviders = None
    /\ templateArgs = None
    /\ templates = MainTemplates
    /\ queue = <<>>
    /\ output = EmptyMap
    /\ rendered = <<>>
    /\ written = <<>>
    /\ rpc = "idle"
    /\ lastStep = [kind |-> "start", tpl |-> 0]
    /\ sort_rules = Some(SortRules_empty)
    /\ priorityCall = None
    /\ argsIn = None
    /\ argsOut = None
    /\ argsPrev = None
    /\ DecodeIdle
    /\ AdaptorIdle
    /\ SpeedIdle
    /\ FunctionIdle

\* main.rs:44, utils.rs:42-45,62-65  task k: client.get(url).await answers or
\* fails
FetchResponse(k) ==
    /\ mainPc = "fetching"
    /\ taskPc[k] = "fetch"
    /\ \E ok \in BOOLEAN :
         /\ taskPc' = [taskPc EXCEPT ![k] = IF ok THEN "body" ELSE "failed"]
         /\ finishOrder' = IF ok THEN finishOrder ELSE Append(finishOrder, k)
    /\ mainPc' = TryJoinAll(taskPc')
    /\ UNCHANGED <<providers, taskContent, taskNodes, nodesByProviders, templateArgs>>

\* main.rs:44-73, utils.rs:46-50,66-70  task k: to_bytes(body).await completes
\* or fails; with the content the task runs to its end without another await
FetchBodyAndParse(k) ==
    /\ mainPc = "fetching"
    /\ taskPc[k] = "body"
    /\ \/ /\ taskPc' = [taskPc EXCEPT ![k] = "failed"]
          /\ UNCHANGED <<taskContent, taskNodes>>
       \/ \E content \in MainContents(providers[k].type) :
            \E r \in parse_nodes_from_content(providers[k], content) :
               /\ taskContent' = [taskContent EXCEPT ![k] = Some(content)]
               /\ taskPc' = [taskPc EXCEPT ![k] = IF r.tag = "ok" THEN "done"
                                                  ELSE IF r.tag = "panic" THEN "panicked"
                                                  ELSE "failed"]
               /\ taskNodes' = [taskNodes EXCEPT ![k] = IF r.tag = "ok" THEN r.val ELSE @]
    /\ finishOrder' = Append(finishOrder, k)
    /\ mainPc' = TryJoinAll(taskPc')
    /\ UNCHANGED <<providers, nodesByProviders, templateArgs>>

\* main.rs:78-82  NODES_BY_PROVIDERS.set
SetNodesByProviders ==
    /\ mainPc = "joined"
    /\ nodesByProviders' = Some(JoinedOutputs(taskNodes, finishOrder))
    /\ mainPc' = "args"
    /\ UNCHANGED <<providers, taskPc, taskContent, taskNodes, finishOrder, templateArgs>>

\* main.rs:87-96  TEMPLATE_ARGS.set(TemplateArgs::new(..))
SetTemplateArgs ==
    /\ mainPc = "args"
    /\ \E args \in TemplateArgs_new(providers, nodesByProviders[1], <<>>, sort_rules[1]) :
         templateArgs' = Some(args)
    /\ mainPc' = "render"
    /\ UNCHANGED <<providers, taskPc, taskContent, taskNodes, finishOrder,
                   nodesByProviders>>

\* main.rs:100-102  RenderEngine::new and the call of render
MainRenderStart ==
    /\ mainPc = "render"
    /\ RenderStart
    /\ mainPc' = "rendering"
    /\ UNCHANGED <<providers, taskPc, taskContent, taskNodes, finishOrder,
                   nodesByProviders, templateArgs>>

\* main.rs:102-108  render has returned: `?` on its result, then Ok(())
MainReturn ==
    /\ mainPc = "rendering"
    /\ rpc \in {"ok", "err"}
    /\ mainPc' = IF rpc = "ok" THEN "done" ELSE "error"
    /\ UNCHANGED <<providers, taskPc, taskContent, taskNodes, finishOrder,
                   nodesByProviders, templateArgs>>
    /\ UNCHANGED renderVars

NextMain ==
    \/ /\ \E k \in DOMAIN providers : FetchResponse(k)
       /\ UNCHANGED <<renderVars, decodeVars, sortVars,
                    adaptorVars, speedVars, functionVars>>
    \/ /\ \E k \in DOMAIN providers : FetchBodyAndParse(k)
       /\ UNCHANGED <<renderVars, decodeVars, sortVars,
                    adaptorVars, speedVars, functionVars>>
    \/ /\ SetNodesByProviders
       /\ UNCHANGED <<renderVars, decodeVars, sortVars,
                    adaptorVars, speedVars, functionVars>>
    \/ /\ SetTemplateArgs
       /\ UNCHANGED <<renderVars, decodeVars, sortVars,
                    adaptorVars, speedVars, functionVars>>
    \/ /\ MainRenderStart
       /\ UNCHANGED <<decodeVars, sortVars,
                    adaptorVars, speedVars, functionVars>>
    \/ /\ mainPc = "rendering" /\ Requeue /\ UNCHANGED notRenderVars
    \/ /\ mainPc = "rendering" /\ RenderNamed /\ UNCHANGED notRenderVars
    \/ /\ mainPc = "rendering" /\ RenderUnnamed /\ UNCHANGED notRenderVars
    \/ /\ mainPc = "rendering" /\ RenderReturnOk /\ UNCHANGED notRenderVars
    \/ /\ MainReturn
       /\ UNCHANGED <<decodeVars, sortVars,
                    adaptorVars, speedVars, functionVars>>

SpecMain == InitMain /\ [][NextMain]_vars

(***************************************************************************)
(* Properties of RenderEngine::render                                      *)
(***************************************************************************)
TemplateIds == 1..MaxTemplates

Tids == DOMAIN templates

RequiresMet(t) == templates[t].requires \subseteq DOMAIN output

RenderedTids == {rendered[i].tpl : i \in DOMAIN rendered}

WrittenTids == {written[i].tpl : i \in DOMAIN written}

NamesOf(S) == {templates[t].name[1] : t \in {u \in S : templates[u].name # None}}

\* The templates whose requirements resolve: the least set S with
\* t \in S whenever every required name of t is the name of a template of S.
RECURSIVE Resolvable(_)
Resolvable(k) ==
    IF k = 0 THEN {}
    ELSE LET prev == Resolvable(k - 1)
         IN {t \in Tids : templates[t].requires \subseteq NamesOf(prev)}

Satisfiable == Resolvable(Len(templates))

Unsatisfiable == Tids \ Satisfiable

\* this step of render() pops a template and hands it to the templating engine
RenderAttempt ==
    /\ rpc = "running"
    /\ queue # <<>>
    /\ queue' = Tail(queue)

\* C1: render never hands a template to the templating engine while one of
\* its required names is absent from the output registry; a popped template
\* with an unmet requirement goes to the tail of the queue and in that step
\* nothing is rendered, registered or written.
C1_RenderOnlyWhenRequiresMet ==
    [][ /\ RenderAttempt => RequiresMet(Head(queue))
        /\ (rpc = "running" /\ queue # <<>> /\ ~RequiresMet(Head(queue)))
              => /\ queue' = Append(Tail(queue), Head(queue))
                 /\ UNCHANGED <<output, rendered, written, rpc>>
      ]_vars

\* a template with requirements was rendered after a template configured
\* behind it, i.e. it was requeued first
C1_Witness ==
    \E i, j \in DOMAIN rendered :
        /\ i < j
        /\ rendered[i].tpl > rendered[j].tpl
        /\ templates[rendered[i].tpl].name # None
        /\ templates[rendered[i].tpl].name[1] \in templates[rendered[j].tpl].requires
        /\ Cardinality(templates[rendered[j].tpl].requires) = 2

\* C2 as stated: every template whose requirements resolve is eventually
\* rendered and written, and render returns Ok when all of them resolve.  In
\* the form a finite run refutes: render has not returned while a resolvable
\* template is unwritten, and it never returns an error when all resolve.
C2_AsClaimed ==
    /\ rpc \in {"ok", "err"} => Satisfiable \subseteq WrittenTids
    /\ (Unsatisfiable = {}) => rpc # "err"

\* C2 (amended): under any configured order, every template whose
\* requirements resolve is eventually rendered and written unless render
\* aborts with an error first; when all resolve, render terminates, and it
\* returns Ok only with every template written.
C2_ResolvableEventuallyWritten ==
    /\ \A t \in TemplateIds :
          (t \in Satisfiable) ~> (t \in WrittenTids \/ rpc = "err")
    /\ (Unsatisfiable = {}) ~> (rpc \in {"ok", "err"})
    /\ [](rpc = "ok" => Satisfiable \subseteq WrittenTids)

\* an out-of-order configuration was rendered completely
C2_Witness ==
    /\ rpc = "ok"
    /\ Len(written) = MaxTemplates
    /\ written[1].tpl = MaxTemplates
    /\ templates[1].requires # {}

\* C3 as stated: with an unresolvable template in the set render never returns.
C3_AsClaimed == (Unsatisfiable # {}) => rpc = "running"

\* C3 (amended): a template whose requirements never resolve is never
\* rendered or written and stays in the queue for as long as render runs;
\* render never returns Ok: it loops forever unless the rendering or writing
\* of another template fails, in which case it returns that error.
C3_UnresolvableNeverRendered ==
    \A t \in Unsatisfiable :
        /\ t \notin RenderedTids
        /\ t \notin WrittenTids
        /\ rpc # "ok"
        /\ rpc = "running" => t \in Range(queue)

\* an unresolvable template has been pushed back while everything else is done
C3_Witness ==
    /\ Unsatisfiable # {}
    /\ Satisfiable # {}
    /\ Satisfiable = WrittenTids
    /\ lastStep.kind = "requeue"
    /\ lastStep.tpl \in Unsatisfiable
    /\ Range(queue) = Unsatisfiable

\* the most recently rendered text of name n
LastRenderedAs(n) ==
    LET idx == {i \in DOMAIN rendered : templates[rendered[i].tpl].name = Some(n)}
        last == CHOOSE i \in idx : \A k \in idx : k <= i
    IN rendered[last].text

\* C4: the keys of the output registry are exactly the names of the named
\* templates rendered so far, each mapped to the text of the most recently
\* rendered template of that name; unnamed templates leave no entry.
C4_RegistryIsNamedRendered ==
    /\ DOMAIN output = NamesOf(RenderedTids)
    /\ \A n \in DOMAIN output : output[n] = LastRenderedAs(n)

\* two templates of one name and an unnamed template have been rendered
C4_Witness ==
    /\ \E i, j \in DOMAIN rendered :
          /\ i < j
          /\ templates[rendered[i].tpl].name = templates[rendered[j].tpl].name
          /\ templates[rendered[i].tpl].name # None
    /\ \E i \in DOMAIN rendered : templates[rendered[i].tpl].name = None

\* C5: when the templating engine fails on a template render returns an
\* error in that step, the registry and the files are left as they were,
\* and after the error nothing is rendered, registered or written.
C5_EngineFailureAborts ==
    [][ /\ (RenderAttempt /\ rendered' = rendered)
              => /\ rpc' = "err"
                 /\ UNCHANGED <<output, written>>
        /\ rpc = "err" => UNCHANGED <<queue, output, rendered, written, rpc>>
      ]_vars

\* the engine failed on a template while others were still queued
C5_Witness ==
    /\ rpc = "err"
    /\ lastStep.kind = "render_error"
    /\ templates[lastStep.tpl].name # None
    /\ queue # <<>>
    /\ rendered # <<>>

(***************************************************************************)
(* Properties of Provider::parse_nodes_from_content                        *)
(***************************************************************************)
Decoded == dResult # None

\* an entry of the content that does not decode into a node: a non-empty line
\* that is no Url, a link that is rejected, a proxy that is dropped
BadEntry(type, options, e) ==
    IF type = "ssr"
    THEN e.text = "garbage" \/ (e.text = "url" /\ Ssr_decode_link(options, e).tag # "ok")
    ELSE e.type \notin {"ss", "ssr"} \/ Clash_convert_proxy(e) = None

HasBadEntry ==
    \E i \in DOMAIN dContent[1].entries :
        BadEntry(dProvider[1].type, dProvider[1].options, dContent[1].entries[i])

UrlLines == SelectSeq(dContent[1].entries, LAMBDA e : e.text = "url")

\* the proxies of a Clash subscription that convert to a node
GoodProxies ==
    SelectSeq(dContent[1].entries,
              LAMBDA e : ~BadEntry("clash", dProvider[1].options, e))

SetMax(S) == CHOOSE x \in S : \A y \in S : y <= x

\* the priorities of the keys of a contains table that occur in name
Matches(table, name) == {table[k] : k \in {c \in DOMAIN table : Contains(name, c)}}

\* the lookup levels in their order: each is None (no match, or the input is
\* absent) or the priority it yields
Levels(rules, c) ==
    << IF c.node_name # None /\ c.node_name[1] \in DOMAIN rules.node_name_to_priority
       THEN Some(rules.node_name_to_priority[c.node_name[1]]) ELSE None,
       IF c.node_name # None /\ Matches(rules.node_names_contains, c.node_name[1]) # {}
       THEN Some(SetMax(Matches(rules.node_names_contains, c.node_name[1]))) ELSE None,
       IF c.provider_name # None
          /\ c.provider_name[1] \in DOMAIN rules.provider_name_to_priority
       THEN Some(rules.provider_name_to_priority[c.provider_name[1]]) ELSE None,
       IF c.provider_index # None
          /\ c.provider_index[1] \in DOMAIN rules.provider_index_to_priority
       THEN Some(rules.provider_index_to_priority[c.provider_index[1]]) ELSE None,
       IF c.provider_name # None
          /\ Matches(rules.provider_names_contains, c.provider_name[1]) # {}
       THEN Some(SetMax(Matches(rules.provider_names_contains, c.provider_name[1])))
       ELSE None >>

\* C8: get_node_priority returns the priority of the first level, in the order
\* node-name exact, node-name contains (highest among the matching keys,
\* whatever the iteration order), provider-name exact, provider-index exact,
\* provider-name contains, that yields a match, and 0 when none does.
C8_FirstLevelDecides ==
    priorityCall # None =>
        LET lv == Levels(sort_rules[1], priorityCall[1])
            hits == {i \in 1..5 : lv[i] # None}
        IN IF hits = {} THEN priorityCall[1].result = 0
           ELSE priorityCall[1].result =
                    lv[CHOOSE i \in hits : \A j \in hits : i <= j][1]

\* the node-name exact rule decided although a matching contains rule holds
\* a higher priority
C8_Witness ==
    /\ priorityCall # None
    /\ LET lv == Levels(sort_rules[1], priorityCall[1])
       IN /\ lv[1] # None /\ lv[2] # None
          /\ lv[1][1] < lv[2][1]
          /\ priorityCall[1].result = lv[1][1]

(***************************************************************************)
(* Properties of TemplateArgs::new                                         *)
(***************************************************************************)
\* the priority of a node with the given provider name and index
PriorityOf(node, provider_name, provider_index) ==
    LET rules == sort_rules[1]
    IN get_node_priority(rules, CHOOSE o \in Orders(rules.node_names_contains) : TRUE,
                         CHOOSE o \in Orders(rules.provider_names_contains) : TRUE,
                         get_name(node), provider_name, provider_index)

\* a before b is in order: higher priority first, then display name ascending
InOrder(pa, a, pb, b) ==
    \/ pa > pb
    \/ pa = pb /\ StrCmp(get_display_name(a), get_display_name(b)) \in {"Less", "Equal"}

\* the list holds the nodes of one provider in order
ProviderListSorted(list, k) ==
    \A i, j \in DOMAIN list : i < j =>
        InOrder(PriorityOf(list[i], argsIn[1].providers[k].name, Some(k - 1)), list[i],
                PriorityOf(list[j], argsIn[1].providers[k].name, Some(k - 1)), list[j])

\* the number of positions of seq that hold x
Count(seq, x) == Cardinality({i \in DOMAIN seq : seq[i] = x})

\* C9: every list TemplateArgs::new builds is in order of priority descending,
\* then display name ascending; the global list holds every node of every
\* provider and every standalone node exactly once, the standalone nodes
\* scored with no provider name and no provider index.
C9_ListsSorted ==
    argsOut # None =>
        LET in == argsIn[1]
            out == argsOut[1]
            all == out.all_nodes_with_extra_infos
            input == Flatten(in.nodes_by_providers) \o in.standalone_nodes
            fromProviders == Flatten(in.nodes_by_providers)
        IN /\ \A k \in DOMAIN out.nodes_by_providers :
                ProviderListSorted(out.nodes_by_providers[k], k)
           /\ \A k \in DOMAIN in.providers :
                in.providers[k].name # None =>
                    /\ in.providers[k].name[1] \in DOMAIN out.nodes_by_provider_names
                    /\ ProviderListSorted(
                           out.nodes_by_provider_names[in.providers[k].name[1]], k)
           /\ \A i, j \in DOMAIN all : i < j =>
                InOrder(PriorityOf(all[i].node, all[i].provider_name, all[i].provider_index),
                        all[i].node,
                        PriorityOf(all[j].node, all[j].provider_name, all[j].provider_index),
                        all[j].node)
           /\ Len(out.all_nodes) = Len(input)
           /\ \A x \in Range(input) : Count(out.all_nodes, x) = Count(input, x)
           /\ \A x \in Range(in.standalone_nodes) :
                Count(in.standalone_nodes, x) =
                    Cardinality({i \in DOMAIN all : all[i].node = x
                                    /\ all[i].provider_name = None
                                    /\ all[i].provider_index = None})

\* a node-name rule lifts a standalone node over a provider's node that comes
\* first in the input and has the smaller display name
C9_Witness ==
    /\ argsOut # None
    /\ LET all == argsOut[1].all_nodes_with_extra_infos
       IN /\ Len(all) = 2
          /\ all[1].provider_index = None
          /\ all[2].provider_index # None
          /\ StrCmp(get_display_name(all[2].node), get_display_name(all[1].node)) = "Less"

\* the fields of the TemplateArgs value
ArgsFields(args) ==
    [providers |-> args.providers,
     nodes_by_providers |-> args.nodes_by_providers,
     nodes_by_provider_names |-> args.nodes_by_provider_names,
     all_nodes |-> args.all_nodes]

\* C10 as claimed: a second run on the same nodes in another order, or on
\* lists already sorted, returns the same lists as the first run, also when
\* distinct nodes have equal priority and equal display name.
C10_AsClaimed ==
    argsPrev # None => ArgsFields(argsOut[1]) = ArgsFields(argsPrev[1].out)

\* two distinct nodes of the input that the comparator holds equal
HasTies ==
    LET in == argsIn[1]
        infos == Flatten([k \in DOMAIN in.nodes_by_providers |->
                            WithProviderInfos(in.providers, in.nodes_by_providers[k], k - 1)])
                 \o StandaloneInfos(in.standalone_nodes)
    IN \E i, j \in DOMAIN infos :
          /\ infos[i].node # infos[j].node
          /\ get_display_name(infos[i].node) = get_display_name(infos[j].node)
          /\ PriorityOf(infos[i].node, infos[i].provider_name, infos[i].provider_index)
             = PriorityOf(infos[j].node, infos[j].provider_name, infos[j].provider_index)

DisplayNames(list) == [i \in DOMAIN list |-> get_display_name(list[i])]

\* C10, amended: when no two distinct nodes have both equal priority and equal
\* display name, a second run on the same nodes in another order, or on lists
\* already sorted, returns the same lists as the first run; with such nodes
\* the two runs still agree on the display names at every position.
C10_SameResultWithoutTies ==
    argsPrev # None =>
        LET new == argsOut[1]
            old == argsPrev[1].out
        IN /\ ~HasTies => ArgsFields(new) = ArgsFields(old)
           /\ \A k \in DOMAIN new.nodes_by_providers :
                DisplayNames(new.nodes_by_providers[k]) = DisplayNames(old.nodes_by_providers[k])
           /\ DOMAIN new.nodes_by_provider_names = DOMAIN old.nodes_by_provider_names
           /\ \A n \in DOMAIN new.nodes_by_provider_names :
                DisplayNames(new.nodes_by_provider_names[n])
                    = DisplayNames(old.nodes_by_provider_names[n])
           /\ DisplayNames(new.all_nodes) = DisplayNames(old.all_nodes)

\* the second run received a provider's two nodes in the order the first run
\* had sorted them into, which is not the order the first run received
C10_Witness ==
    /\ argsPrev # None
    /\ ~HasTies
    /\ \E k \in DOMAIN argsIn[1].nodes_by_providers :
          /\ Len(argsIn[1].nodes_by_providers[k]) = 2
          /\ argsIn[1].nodes_by_providers[k] = argsPrev[1].out.nodes_by_providers[k]
          /\ argsIn[1].nodes_by_providers[k] # argsPrev[1].in.nodes_by_providers[k]
    /\ ArgsFields(argsOut[1]) = ArgsFields(argsPrev[1].out)

(***************************************************************************)
(* Properties of main                                                      *)
(***************************************************************************)
FailedTasks == {k \in DOMAIN taskPc : taskPc[k] \in {"failed", "panicked"}}

\* C6: the provider tasks interleave freely, and once the fetch or the decode
\* of any one provider has failed the run has ended abnormally (main returned
\* the error, or the decoder's panic ended the process) without TemplateArgs
\* being built, any template rendered or any output file written.
C6_ProviderFailureStopsRun ==
    FailedTasks # {} =>
        /\ mainPc \in {"error", "panicked"}
        /\ nodesByProviders = None
        /\ templateArgs = None
        /\ rpc = "idle"
        /\ rendered = <<>>
        /\ written = <<>>

\* one provider had delivered its nodes when the decode of another provider's
\* content failed and ended the run
C6_Witness ==
    /\ \E j, k \in DOMAIN taskPc :
          /\ taskPc[j] = "done"
          /\ taskNodes[j] # <<>>
          /\ taskPc[k] = "failed"
          /\ taskContent[k] # None
    /\ mainPc = "error"
    /\ templateArgs = None

(***************************************************************************)
(* SpecAdaptor: nodes of every variant handed to the four adaptors         *)
(***************************************************************************)
MaxAdNodes == 2

\* nodes of every variant of node/mod.rs:50-62 Node: Shadowsocks nodes with every
\* variant of node/ss.rs:327-340 Plugin and with no plugin, with and without an
\* AEAD-2022 cipher, named and unnamed; Hysteria and Hysteria2 nodes with a
\* single port and with a port range
AdaptorNodes ==
    LET ObfsOptsSamples ==
            {[obfs |-> Some("http"), host |-> Some("h.example"), uri |-> None],
             [obfs |-> Some("tls"), host |-> None, uri |-> Some("/u")],
             [obfs |-> None, host |-> None, uri |-> None]}
        PluginSamples ==
            {None}
            \cup {Some([kind |-> "SimpleObfs", opts |-> o]) : o \in ObfsOptsSamples}
            \cup {Some([kind |-> k]) : k \in {"GoQuiet", "Cloak", "Kcptun", "V2ray"}}
            \cup {Some([kind |-> "Unknown", plugin_name |-> "x", plugin_opts |-> None]),
                  Some([kind |-> "Unknown", plugin_name |-> "x",
                        plugin_opts |-> Some([k |-> "v"])])}
        SsSample(remarks, method, plugin) ==
            [type |-> "ss", remarks |-> remarks, server |-> StrHost, server_port |-> 1,
             password |-> "pw", method |-> method, udp |-> None,
             udp_over_tcp |-> None, plugin |-> plugin]
        SsSamples ==
            {SsSample(Some(StrA), "AeadAes256Gcm", p) : p \in PluginSamples}
            \cup {SsSample(Some(StrA), "Ss2022Blake3Aes128Gcm", p) :
                    p \in {None,
                           Some([kind |-> "SimpleObfs",
                                 opts |-> [obfs |-> Some("http"),
                                           host |-> Some("h.example"),
                                           uri |-> None]])}}
            \cup {SsSample(None, "AeadAes256Gcm", None)}
            \cup {[SsSample(Some(StrA), "AeadAes256Gcm", None)
                      EXCEPT !.udp = udp, !.udp_over_tcp = udp_over_tcp] :
                    udp \in {None, Some(TRUE), Some(FALSE)},
                    udp_over_tcp \in {None, Some(TRUE), Some(FALSE)}}
        SsrSample ==
            [type |-> "ssr", remarks |-> Some(StrB), server |-> StrHost,
             server_port |-> 2, password |-> "pw", method |-> "aes-256-cfb",
             protocol |-> "origin", protocol_param |-> None, obfs |-> "plain",
             obfs_param |-> None, udpport |-> None, uot |-> None]
        PortSamples == {[kind |-> "Single", port |-> 443],
                        [kind |-> "Range", start |-> 1000, end |-> 2000]}
        HysteriaSamples ==
            {[type |-> "hysteria", remarks |-> Some(StrP), server |-> StrHost,
              port |-> p, protocol |-> None, up |-> [kind |-> "Mbps", mbps |-> 10],
              down |-> [kind |-> "Text", text |-> <<49, 48, 32, 109, 98, 112, 115>>],
              obfs |-> None, auth |-> Some("a"), tls |-> [sni |-> None]] :
                p \in PortSamples}
        Hysteria2Sample(port, down) ==
            [type |-> "hysteria2", remarks |-> Some(StrQ), server |-> StrHost,
             port |-> port, auth |-> Some("a"), obfs |-> None, up |-> None,
             down |-> down, tls |-> [sni |-> None]]
        Hysteria2Samples ==
            {Hysteria2Sample(p, None) : p \in PortSamples}
            \cup {Hysteria2Sample([kind |-> "Single", port |-> 443], d) :
                    d \in {Some([kind |-> "Mbps", mbps |-> 10]),
                           Some([kind |-> "Text", text |-> <<49, 48, 32, 109>>])}}
        WireguardSample ==
            [type |-> "wireguard", remarks |-> None, server |-> StrHost,
             port |-> 51820, private_key |-> "k", public_key |-> "K"]
    IN SsSamples \cup {SsrSample} \cup HysteriaSamples \cup Hysteria2Samples
       \cup {WireguardSample}

InitAdaptor ==
    /\ adNodes = <<>>
    /\ adConvert = None
    /\ adString = None
    /\ RenderIdle
    /\ MainIdle
    /\ DecodeIdle
    /\ SortIdle
    /\ SpeedIdle
    /\ FunctionIdle

\* a node reaches the adaptor (the iterator handed to nodes_to_string)
AdAddNode ==
    /\ adConvert = None
    /\ adString = None
    /\ Len(adNodes) < MaxAdNodes
    /\ \E node \in AdaptorNodes : adNodes' = Append(adNodes, node)
    /\ UNCHANGED <<adConvert, adString>>

\* template/adaptors/mod.rs:53  Adaptor::convert_node on one of the nodes
ConvertNode ==
    /\ adConvert = None
    /\ adString = None
    /\ \E adaptor \in AdaptorNames, i \in DOMAIN adNodes :
          adConvert' = Some([adaptor |-> adaptor, node |-> adNodes[i],
                             result |-> convert_node(adaptor, adNodes[i])])
    /\ UNCHANGED <<adNodes, adString>>

\* template/adaptors/mod.rs:74-94  nodes_to_string on the nodes
NodesToString ==
    /\ adConvert = None
    /\ adString = None
    /\ \E adaptor \in AdaptorNames, brackets \in BOOLEAN :
          adString' = Some([adaptor |-> adaptor,
                            result |-> nodes_to_string(adaptor, adNodes,
                                           [include_array_brackets |-> brackets])])
    /\ UNCHANGED <<adNodes, adConvert>>

NextAdaptor ==
    \/ AdAddNode /\ UNCHANGED <<renderVars, mainVars, decodeVars, sortVars,
                                speedVars, functionVars>>
    \/ ConvertNode /\ UNCHANGED <<renderVars, mainVars, decodeVars, sortVars,
                                  speedVars, functionVars>>
    \/ NodesToString /\ UNCHANGED <<renderVars, mainVars, decodeVars, sortVars,
                                    speedVars, functionVars>>

SpecAdaptor == InitAdaptor /\ [][NextAdaptor]_vars

(***************************************************************************)
(* Claims about the adaptors                                               *)
(***************************************************************************)
\* C11: convert_node returns Some or None for every node and never panics,
\* whatever the plugin of a Shadowsocks node is; nodes_to_string, which calls
\* it on every node, does not panic either.
C11_ConvertNeverPanics ==
    /\ adConvert # None => adConvert[1].result.tag # "panic"
    /\ adString # None => adString[1].result.tag # "panic"

\* the nodes of a sequence for which convert_node returns Some, in input order,
\* as the adaptor converts them
ReturnsSome(adaptor, node) ==
    /\ convert_node(adaptor, node).tag = "ok"
    /\ convert_node(adaptor, node).val # None

ConvertedOf(adaptor, nodes) ==
    LET Supported(node) == ReturnsSome(adaptor, node)
        kept == SelectSeq(nodes, Supported)
    IN [i \in DOMAIN kept |-> convert_node(adaptor, kept[i]).val[1]]

\* C12: nodes_to_string returns the serialization of exactly the nodes for
\* which convert_node returns Some, in input order: no more entries than input
\* nodes, and no node that convert_node rejects (or fails on) keeps a
\* supported node out of the output.
C12_SerializesExactlyConverted ==
    adString # None =>
        /\ adString[1].result.tag = "ok"
        /\ adString[1].result.val.entries = ConvertedOf(adString[1].adaptor, adNodes)
        /\ Len(adString[1].result.val.entries) <= Len(adNodes)

\* C13: a Shadowsocks node with a plugin is converted by Clash and Clash-Meta
\* iff the plugin is Simple-Obfs without uri (mode and host are mapped), by
\* sing-box iff it is Simple-Obfs ("obfs-local") or V2ray ("v2ray-plugin"), by
\* Surge iff it is Simple-Obfs (obfs, host and uri are mapped); otherwise
\* convert_node returns None.  For Clash the plugin decides among the nodes
\* whose cipher Clash can represent.
C13_PluginDecidesConversion ==
    (/\ adConvert # None
     /\ adConvert[1].node.type = "ss"
     /\ adConvert[1].node.plugin # None) =>
        LET adaptor == adConvert[1].adaptor
            node == adConvert[1].node
            plugin == node.plugin[1]
            result == adConvert[1].result
            obfs == plugin.kind = "SimpleObfs"
        IN /\ result.tag = "ok"
           /\ (\/ adaptor = "clash meta"
               \/ adaptor = "clash" /\ ~is_aead_2022_cipher(node.method)) =>
                 /\ result.val # None <=> (obfs /\ plugin.opts.uri = None)
                 /\ result.val # None =>
                       result.val[1].plugin =
                           Some([plugin |-> "obfs",
                                 plugin_opts |-> [mode |-> plugin.opts.obfs,
                                                  host |-> plugin.opts.host]])
           /\ adaptor = "sing-box" =>
                 /\ result.val # None <=> plugin.kind \in {"SimpleObfs", "V2ray"}
                 /\ result.val # None =>
                       result.val[1].plugin =
                           Some(IF obfs THEN "obfs-local" ELSE "v2ray-plugin")
           /\ adaptor = "surge" =>
                 /\ result.val # None <=> obfs
                 /\ result.val # None => result.val[1].proxy.obfs = Some(plugin.opts)

PortCase ==
    /\ adConvert # None
    /\ adConvert[1].adaptor \in {"clash meta", "sing-box"}
    /\ adConvert[1].node.type \in {"hysteria", "hysteria2"}
    /\ adConvert[1].result.tag = "ok"
    /\ adConvert[1].result.val # None

\* the scalar field (ClashMetaProxy.port is a u16 and always written,
\* SingBoxNode.server_port is an Option) and the ranged field of the target
ScalarPort ==
    IF adConvert[1].adaptor = "clash meta" THEN Some(adConvert[1].result.val[1].port)
    ELSE adConvert[1].result.val[1].server_port

RangedPorts ==
    IF adConvert[1].adaptor = "clash meta" THEN adConvert[1].result.val[1].ports
    ELSE adConvert[1].result.val[1].server_ports

\* C15 as claimed: exactly one of the scalar and the ranged port field of the
\* converted node is populated.
C15_AsClaimed == PortCase => ((ScalarPort # None) # (RangedPorts # None))

\* C15, amended: sing-box populates exactly one of server_port (single port)
\* and server_ports (<<"start:end">>, range); Clash-Meta always writes port,
\* the single port or the start of the range, and writes ports ("start-end")
\* only for a range.
C15_PortFields ==
    PortCase =>
        LET port == adConvert[1].node.port
            range(sep) == (Digits(port.start) \o sep) \o Digits(port.end)
        IN IF adConvert[1].adaptor = "sing-box"
           THEN IF port.kind = "Single"
                THEN ScalarPort = Some(port.port) /\ RangedPorts = None
                ELSE ScalarPort = None /\ RangedPorts = Some(<<range(<<58>>)>>)
           ELSE IF port.kind = "Single"
                THEN ScalarPort = Some(port.port) /\ RangedPorts = None
                ELSE ScalarPort = Some(port.start) /\ RangedPorts = Some(range(<<45>>))

\* Clash-Meta converted a node with a port range: both fields are written
C15_Witness ==
    /\ PortCase
    /\ adConvert[1].adaptor = "clash meta"
    /\ adConvert[1].node.port.kind = "Range"
    /\ ScalarPort # None
    /\ RangedPorts # None

(***************************************************************************)
(* SpecSpeed: to_mbps and to_text on Speed values                          *)
(***************************************************************************)
MaxSpeed == 10

\* the suffixes of node/hysteria.rs:98-134 as a set: "bps" and "b" with and
\* without a leading space for the bit family (unit 0), and "xbps", "xb", "x"
\* with and without a leading space for x = k, m, g, t
SuffixFamily(x) ==
    IF x = 0 THEN {<<32, 98, 112, 115>>, <<98, 112, 115>>, <<32, 98>>, <<98>>}
    ELSE {<<32, x, 98, 112, 115>>, <<x, 98, 112, 115>>, <<32, x, 98>>, <<x, 98>>,
          <<32, x>>, <<x>>}

\* Speed::Mbps(n), and Speed::Text of a number with every listed suffix; the
\* numbers of the bit and kilobit families include multiples of 1024 * 1024
\* and of 1024, and every number stays below the overflow of the u32 products
SpeedSamples ==
    LET text(n, x) ==
            {[kind |-> "Text", text |-> Digits(n) \o suffix] : suffix \in SuffixFamily(x)}
    IN {[kind |-> "Mbps", mbps |-> n] : n \in 0..MaxSpeed}
       \cup UNION {text(n, x) : n \in 0..MaxSpeed, x \in {0, 107, 109, 103, 116}}
       \cup UNION {text(n * 1024, 107) : n \in 0..MaxSpeed}
       \cup UNION {text((n * 1024) * 1024, 0) : n \in 0..MaxSpeed}

InitSpeed ==
    /\ speed \in {Some(s) : s \in SpeedSamples}
    /\ speedText = None
    /\ speedMbps = None
    /\ RenderIdle
    /\ MainIdle
    /\ DecodeIdle
    /\ SortIdle
    /\ AdaptorIdle
    /\ FunctionIdle

\* node/hysteria.rs:152  to_text on the value
SpeedToText ==
    /\ speedText = None
    /\ speedMbps = None
    /\ speedText' = Some(to_text(speed[1]))
    /\ UNCHANGED <<speed, speedMbps>>

\* node/hysteria.rs:95  to_mbps, on the value or on Speed::Text of the text
\* to_text produced
SpeedToMbps ==
    /\ speedMbps = None
    /\ speedMbps' = Some(to_mbps(IF speedText = None THEN speed[1]
                                 ELSE [kind |-> "Text", text |-> speedText[1]]))
    /\ UNCHANGED <<speed, speedText>>

NextSpeed ==
    \/ SpeedToText /\ UNCHANGED <<renderVars, mainVars, decodeVars, sortVars,
                                  adaptorVars, functionVars>>
    \/ SpeedToMbps /\ UNCHANGED <<renderVars, mainVars, decodeVars, sortVars,
                                  adaptorVars, functionVars>>

SpecSpeed == InitSpeed /\ [][NextSpeed]_vars

(***************************************************************************)
(* Claims about Speed                                                      *)
(***************************************************************************)
\* C16: for every n, to_mbps of the text that to_text produces for
\* Speed::Mbps(n) is Some(n), the same as to_mbps of Speed::Mbps(n).
C16_RoundTripLossless ==
    (/\ speed[1].kind = "Mbps"
     /\ speedText # None
     /\ speedMbps # None) =>
        /\ speedMbps[1] = Some(speed[1].mbps)
        /\ to_mbps(speed[1]) = Some(speed[1].mbps)

\* C17: to_mbps of a text "<n><suffix>" resolves the most specific suffix: for
\* the listed suffixes of the bit, kilobit, megabit, gigabit and terabit
\* families the result is n / 1024^2, n / 1024, n, n * 1024 and n * 1024^2.
C17_MostSpecificSuffix ==
    (/\ speed[1].kind = "Text"
     /\ speedText = None
     /\ speedMbps # None) =>
        \A n \in UNION {{m, m * 1024, (m * 1024) * 1024} : m \in 0..MaxSpeed} :
            /\ \A suffix \in SuffixFamily(0) :
                  speed[1].text = Digits(n) \o suffix =>
                      speedMbps[1] = Some((n \div 1024) \div 1024)
            /\ \A suffix \in SuffixFamily(107) :
                  speed[1].text = Digits(n) \o suffix => speedMbps[1] = Some(n \div 1024)
            /\ \A suffix \in SuffixFamily(109) :
                  speed[1].text = Digits(n) \o suffix => speedMbps[1] = Some(n)
            /\ \A suffix \in SuffixFamily(103) :
                  speed[1].text = Digits(n) \o suffix => speedMbps[1] = Some(n * 1024)
            /\ \A suffix \in SuffixFamily(116) :
                  speed[1].text = Digits(n) \o suffix =>
                      speedMbps[1] = Some((n * 1024) * 1024)


(***************************************************************************)
(* SpecFunctions: TemplateArgs::new on the nodes of a run, then calls of   *)
(* get_nodes and get_nodes_names from a template                           *)
(***************************************************************************)
MaxFilters == 2

\* the arguments a template hands to get_nodes and get_nodes_names: a scope,
\* at most MaxFilters name filters, a target type, include_array_brackets
FunctionArgs ==
    LET Str(x) == Some([t |-> "string", v |-> x])
        Num(n) == Some([t |-> "number", v |-> n])
        Arr(vs) == Some([t |-> "array", v |-> vs])
        Scopes ==
            {[provider |-> None, provider_index |-> None],
             [provider |-> Str(StrP), provider_index |-> None],
             [provider |-> Str(StrQ), provider_index |-> None],
             [provider |-> Arr(<<Str(StrP)[1], Str(StrP)[1]>>), provider_index |-> None],
             [provider |-> Arr(<<Str(StrP)[1], Str(StrQ)[1]>>), provider_index |-> None],
             [provider |-> Arr(<<Str(StrP)[1], Num(0)[1]>>), provider_index |-> None],
             [provider |-> Arr(<<>>), provider_index |-> None],
             [provider |-> Num(1), provider_index |-> None],
             [provider |-> None, provider_index |-> Num(0)],
             [provider |-> None, provider_index |-> Num(2)],
             [provider |-> None, provider_index |-> Num(-1)],
             [provider |-> None, provider_index |-> Arr(<<Num(1)[1], Num(0)[1]>>)],
             [provider |-> None, provider_index |-> Arr(<<Num(1)[1], Num(2)[1]>>)],
             [provider |-> None, provider_index |-> Arr(<<Num(0)[1], Str(StrP)[1]>>)],
             [provider |-> None, provider_index |-> Arr(<<>>)],
             [provider |-> None, provider_index |-> Str(StrP)],
             [provider |-> Str(StrP), provider_index |-> Num(1)],
             [provider |-> Num(1), provider_index |-> Arr(<<>>)]}
        Given(S, i, x) == IF i \in S THEN Str(x) ELSE None
        Filters ==
            {[name_starts_with |-> Given(S, 1, StrA),
              name_not_starts_with |-> Given(S, 2, StrB),
              name_ends_with |-> Given(S, 3, StrA),
              name_not_ends_with |-> Given(S, 4, StrB),
              name_contains |-> Given(S, 5, StrA),
              name_not_contains |-> Given(S, 6, StrB)] :
                S \in {T \in SUBSET (1..6) : Cardinality(T) <= MaxFilters}}
            \cup {[name_starts_with |-> None, name_not_starts_with |-> None,
                   name_ends_with |-> None, name_not_ends_with |-> None,
                   name_contains |-> Num(1), name_not_contains |-> None]}
        Targets ==
            {[type |-> ty, include_array_brackets |-> br] :
                ty \in {None, Num(1), Str("unknown")} \cup {Str(a) : a \in AdaptorNames},
                br \in {None, Some([t |-> "bool", v |-> FALSE])}}
            \cup {[type |-> Str("clash"), include_array_brackets |-> Str(StrA)]}
    IN {[provider |-> sc.provider, provider_index |-> sc.provider_index,
         name_starts_with |-> f.name_starts_with,
         name_not_starts_with |-> f.name_not_starts_with,
         name_ends_with |-> f.name_ends_with,
         name_not_ends_with |-> f.name_not_ends_with,
         name_contains |-> f.name_contains,
         name_not_contains |-> f.name_not_contains,
         type |-> ta.type, include_array_brackets |-> ta.include_array_brackets] :
            sc \in Scopes, f \in Filters, ta \in Targets}

\* main.rs:60-94  the sort rules of the configuration and the nodes the
\* providers and the configuration have delivered
InitFunctions ==
    LET Unnamed == CHOOSE n \in AdaptorNodes : n.type = "ss" /\ n.remarks = None
        Plain == CHOOSE n \in AdaptorNodes :
                    /\ n.type = "ss" /\ n.remarks # None
                    /\ n.method = "AeadAes256Gcm" /\ n.plugin = None
        WithPlugin(kind) == [Plain EXCEPT !.plugin = Some([kind |-> kind])]
        Ssr == CHOOSE n \in AdaptorNodes : n.type = "ssr"
        Hysteria2 == CHOOSE n \in AdaptorNodes :
                        n.type = "hysteria2" /\ n.port.kind = "Range"
        Named(n, name) == [n EXCEPT !.remarks = Some(name)]
        Inputs ==
            {[providers |-> SortProviders,
              nodes_by_providers |-> <<<<Unnamed, Plain>>, <<Ssr, Named(Plain, StrAB)>>>>,
              standalone_nodes |-> <<Hysteria2>>],
             [providers |-> SortProviders,
              nodes_by_providers |-> <<<<WithPlugin("V2ray")>>, <<Plain, Unnamed>>>>,
              standalone_nodes |-> <<>>],
             [providers |-> SortProviders,
              nodes_by_providers |-> <<<<>>, <<WithPlugin("GoQuiet"), Ssr>>>>,
              standalone_nodes |-> <<Unnamed, Named(Hysteria2, StrAB)>>]}
        Rules ==
            {SortRules_empty,
             InsertRule(SortRules_empty,
                        [type |-> "node_name_contains", contains |-> StrHost,
                         priority |-> 1]),
             InsertRule(SortRules_empty,
                        [type |-> "node_name", name |-> get_display_name(Unnamed),
                         priority |-> 2])}
    IN /\ sort_rules \in {Some(rules) : rules \in Rules}
       /\ priorityCall = None
       /\ argsIn \in {Some(in) : in \in Inputs}
       /\ argsOut = None
       /\ argsPrev = None
       /\ fnCall = <<>>
       /\ RenderIdle
       /\ MainIdle
       /\ DecodeIdle
       /\ AdaptorIdle
       /\ SpeedIdle

\* template/functions/get_nodes.rs:23-37  a template calls get_nodes, first
\* or after get_nodes_names has returned for the same arguments
CallGetNodes ==
    /\ argsOut # None
    /\ \/ /\ fnCall = <<>>
          /\ \E args \in FunctionArgs :
               fnCall' = <<[fn |-> "get_nodes", args |-> args,
                            result |-> GetNodes_call(argsOut[1], args)]>>
       \/ /\ Len(fnCall) = 1
          /\ fnCall[1].fn = "get_nodes_names"
          /\ fnCall[1].result.tag = "ok"
          /\ fnCall' = Append(fnCall,
                              [fn |-> "get_nodes", args |-> fnCall[1].args,
                               result |-> GetNodes_call(argsOut[1], fnCall[1].args)])
    /\ UNCHANGED sortVars

\* template/functions/get_nodes_names.rs:22-41  a template calls
\* get_nodes_names, first or after get_nodes has returned for the same arguments
CallGetNodesNames ==
    /\ argsOut # None
    /\ \/ /\ fnCall = <<>>
          /\ \E args \in FunctionArgs :
               fnCall' = <<[fn |-> "get_nodes_names", args |-> args,
                            result |-> GetNodesNames_call(argsOut[1], args)]>>
       \/ /\ Len(fnCall) = 1
          /\ fnCall[1].fn = "get_nodes"
          /\ fnCall[1].result.tag = "ok"
          /\ fnCall' = Append(fnCall,
                              [fn |-> "get_nodes_names", args |-> fnCall[1].args,
                               result |-> GetNodesNames_call(argsOut[1], fnCall[1].args)])
    /\ UNCHANGED sortVars

NextFunctions ==
    \/ /\ NewTemplateArgs
       /\ UNCHANGED <<renderVars, mainVars, decodeVars,
                    adaptorVars, speedVars, functionVars>>
    \/ /\ CallGetNodes
       /\ UNCHANGED <<renderVars, mainVars, decodeVars, adaptorVars, speedVars>>
    \/ /\ CallGetNodesNames
       /\ UNCHANGED <<renderVars, mainVars, decodeVars, adaptorVars, speedVars>>

SpecFunctions == InitFunctions /\ [][NextFunctions]_vars


(***************************************************************************)
(* Claims about the template functions                                     *)
(***************************************************************************)
\* the six name filters of a call
NameFilters(args) ==
    <<args.name_starts_with, args.name_not_starts_with, args.name_ends_with,
      args.name_not_ends_with, args.name_contains, args.name_not_contains>>

AnyFilter(args) == \E i \in 1..6 : NameFilters(args)[i] # None

\* the nodes of the scope the call selects: what the same call returns when
\* no name filter is supplied
ScopeOf(args) ==
    get_filtered_nodes_by_function_args(
        argsOut[1],
        [args EXCEPT !.name_starts_with = None, !.name_not_starts_with = None,
                     !.name_ends_with = None, !.name_not_ends_with = None,
                     !.name_contains = None, !.name_not_contains = None]).val

\* the nodes a returned call has kept, read from its result: the array of
\* get_nodes without a target type
ReturnedNodes(call) == call.result.val.v

\* a returned call of get_nodes without a target type
ReturnsNodes(call) ==
    /\ call.fn = "get_nodes"
    /\ call.result.tag = "ok"
    /\ call.result.val.t = "array"

\* the name or tag an adaptor has written into an entry of its output
EntryName(entry) == IF "tag" \in DOMAIN entry THEN entry.tag ELSE entry.name

\* the priority the rules give a node when its node-name rules are matched
\* against the display name
DisplayNamePriorityOf(info) ==
    LET rules == sort_rules[1]
    IN get_node_priority(rules, CHOOSE o \in Orders(rules.node_names_contains) : TRUE,
                         CHOOSE o \in Orders(rules.provider_names_contains) : TRUE,
                         Some(get_display_name(info.node)), info.provider_name,
                         info.provider_index)

\* C18 as claimed: every consumer identifies a node by its display name: the
\* global list is in order of the priority its rules give the display name,
\* ties broken by display name, and a call with name filters returns the
\* nodes of its scope whose display name passes the filters, so that an
\* unnamed node is treated like a node named "{server}:{port}".
C18_AsClaimed ==
    argsOut # None =>
        LET all == argsOut[1].all_nodes_with_extra_infos
        IN /\ \A i, j \in DOMAIN all : i < j =>
                InOrder(DisplayNamePriorityOf(all[i]), all[i].node,
                        DisplayNamePriorityOf(all[j]), all[j].node)
           /\ \A c \in DOMAIN fnCall :
                ReturnsNodes(fnCall[c]) /\ AnyFilter(fnCall[c].args) =>
                    LET Passes(node) ==
                            name_tests(fnCall[c].args, get_display_name(node))
                    IN ReturnedNodes(fnCall[c])
                         = SelectSeq(ScopeOf(fnCall[c].args), Passes)

\* C18 (amended): the display name breaks the ties of the sort, fills the
\* name or tag of every entry an adaptor writes, and is what get_nodes_names
\* lists; node-name sort rules and name filters use the name itself: the
\* global list is in order of the priority the rules give the name (none for
\* an unnamed node), then display name, and a call with a name filter returns
\* the named nodes of its scope whose name passes, never an unnamed node.
C18_NameAndDisplayName ==
    argsOut # None =>
        LET all == argsOut[1].all_nodes_with_extra_infos
        IN /\ \A i, j \in DOMAIN all : i < j =>
                InOrder(PriorityOf(all[i].node, all[i].provider_name,
                                   all[i].provider_index), all[i].node,
                        PriorityOf(all[j].node, all[j].provider_name,
                                   all[j].provider_index), all[j].node)
           /\ \A c \in DOMAIN fnCall :
                LET call == fnCall[c]
                    Passes(node) ==
                        /\ get_name(node) # None
                        /\ name_tests(call.args, get_name(node)[1])
                    kept == IF AnyFilter(call.args)
                            THEN SelectSeq(ScopeOf(call.args), Passes)
                            ELSE ScopeOf(call.args)
                IN call.result.tag = "ok" =>
                     /\ ReturnsNodes(call) => ReturnedNodes(call) = kept
                     /\ call.fn = "get_nodes" /\ call.result.val.t = "string" =>
                          \A e \in DOMAIN call.result.val.v.entries :
                             \E n \in DOMAIN kept :
                                EntryName(call.result.val.v.entries[e])
                                  = get_display_name(kept[n])
                     /\ call.fn = "get_nodes_names" =>
                          \A e \in DOMAIN call.result.val.v :
                             \E n \in DOMAIN kept :
                                call.result.val.v[e].v = get_display_name(kept[n])

\* C18 witness: the rules name the display name of an unnamed node, which
\* stands behind a named node of no priority in the global list, and a call
\* with only negative name filters has dropped the unnamed node of its scope
C18_Witness ==
    /\ argsOut # None
    /\ \E i, j \in DOMAIN argsOut[1].all_nodes_with_extra_infos :
         LET all == argsOut[1].all_nodes_with_extra_infos
         IN /\ i < j
            /\ get_name(all[j].node) = None
            /\ DisplayNamePriorityOf(all[j]) > 0
            /\ DisplayNamePriorityOf(all[i]) = 0
    /\ \E c \in DOMAIN fnCall :
         /\ ReturnsNodes(fnCall[c])
         /\ fnCall[c].args.name_not_contains # None
         /\ fnCall[c].args.name_starts_with = None
         /\ \E n \in DOMAIN ScopeOf(fnCall[c].args) :
              get_name(ScopeOf(fnCall[c].args)[n]) = None
         /\ \A n \in DOMAIN ReturnedNodes(fnCall[c]) :
              get_name(ReturnedNodes(fnCall[c])[n]) # None
         /\ ReturnedNodes(fnCall[c]) # <<>>


\* the test the i-th name filter (in the order of NameFilters) makes on a name
FilterTest(i, name, pattern) ==
    CASE i = 1 -> StartsWith(name, pattern)
      [] i = 2 -> ~StartsWith(name, pattern)
      [] i = 3 -> EndsWith(name, pattern)
      [] i = 4 -> ~EndsWith(name, pattern)
      [] i = 5 -> Contains(name, pattern)
      [] i = 6 -> ~Contains(name, pattern)

\* the name passes every name filter the call supplies
PassesAll(args, name) ==
    \A i \in 1..6 :
        NameFilters(args)[i] # None => FilterTest(i, name, NameFilters(args)[i][1].v)

IsNamed(node) == get_name(node) # None

\* C19: the name filters combine with AND: of the named nodes of the selected
\* scope, get_nodes and get_nodes_names return exactly those whose name
\* passes the test of every filter that is supplied, in the order of the
\* scope; a filter that is not supplied excludes nothing.
C19_FiltersCombineWithAnd ==
    argsOut # None =>
        \A c \in DOMAIN fnCall :
            LET call == fnCall[c]
                scope == ScopeOf(call.args)
                Passes(node) == IsNamed(node) /\ PassesAll(call.args, get_name(node)[1])
                expected == SelectSeq(scope, Passes)
            IN call.result.tag = "ok" /\ call.result.val.t = "array" =>
                 /\ call.fn = "get_nodes" =>
                      SelectSeq(ReturnedNodes(call), IsNamed) = expected
                 /\ /\ call.fn = "get_nodes_names"
                    /\ call.args.type = None
                    /\ \A n \in DOMAIN scope : IsNamed(scope[n])
                    => call.result.val.v
                         = [n \in DOMAIN expected |->
                              [t |-> "string", v |-> get_name(expected[n])[1]]]

\* C19 witness: a call with two name filters has returned two named nodes of
\* its scope in their order and has dropped a named node that passes one of
\* the two filters and fails the other
C19_Witness ==
    /\ argsOut # None
    /\ \E c \in DOMAIN fnCall :
         LET call == fnCall[c]
             scope == ScopeOf(call.args)
             supplied == {i \in 1..6 : NameFilters(call.args)[i] # None}
         IN /\ ReturnsNodes(call)
            /\ Cardinality(supplied) = 2
            /\ Len(ReturnedNodes(call)) = 2
            /\ \E n \in DOMAIN scope :
                 /\ IsNamed(scope[n])
                 /\ scope[n] \notin Range(ReturnedNodes(call))
                 /\ \E i \in supplied :
                      FilterTest(i, get_name(scope[n])[1],
                                 NameFilters(call.args)[i][1].v)


\* the nodes the call has selected: those of its scope, filtered by name
\* when a name filter is supplied
FilteredOf(args) ==
    IF AnyFilter(args)
    THEN LET Passes(node) == IsNamed(node) /\ PassesAll(args, get_name(node)[1])
         IN SelectSeq(ScopeOf(args), Passes)
    ELSE ScopeOf(args)

\* the names or tags of the entries get_nodes has serialized for a target
\* type, in order
SerializedNames(call) ==
    [e \in DOMAIN call.result.val.v.entries |->
        EntryName(call.result.val.v.entries[e])]

\* the strings get_nodes_names has returned, in order
ListedNames(call) == [e \in DOMAIN call.result.val.v |-> call.result.val.v[e].v]

\* C20: for the same arguments and the same target type, get_nodes_names
\* returns the names or tags of the entries get_nodes serializes, in the
\* same order: it lists the display name of a selected node iff convert_node
\* of the target adaptor returns Some for it, and with no target type the
\* display names of all selected nodes.  Neither function returns when
\* convert_node fails on a selected node.
C20_NamesMatchSerializedNodes ==
    argsOut # None =>
        /\ \A c, d \in DOMAIN fnCall :
             /\ fnCall[c].fn = "get_nodes"
             /\ fnCall[d].fn = "get_nodes_names"
             /\ fnCall[c].args = fnCall[d].args
             /\ fnCall[c].result.tag = "ok"
             /\ fnCall[d].result.tag = "ok"
             => IF fnCall[c].result.val.t = "string"
                THEN ListedNames(fnCall[d]) = SerializedNames(fnCall[c])
                ELSE ListedNames(fnCall[d])
                       = [n \in DOMAIN ReturnedNodes(fnCall[c]) |->
                            get_display_name(ReturnedNodes(fnCall[c])[n])]
        /\ \A d \in DOMAIN fnCall :
             fnCall[d].fn = "get_nodes_names" /\ fnCall[d].result.tag = "ok" =>
                LET args == fnCall[d].args
                    typed == args.type # None /\ args.type[1].t = "string"
                    Converts(node) ==
                        typed => convert_node(args.type[1].v, node).val # None
                    listed == SelectSeq(FilteredOf(args), Converts)
                IN ListedNames(fnCall[d])
                     = [n \in DOMAIN listed |-> get_display_name(listed[n])]
        /\ \A c \in DOMAIN fnCall :
             fnCall[c].result.tag # "err" =>
                LET args == fnCall[c].args
                    typed == args.type # None /\ args.type[1].t = "string"
                IN fnCall[c].result.tag = "panic"
                     <=> /\ typed
                         /\ \E n \in DOMAIN FilteredOf(args) :
                              convert_node(args.type[1].v, FilteredOf(args)[n]).tag
                                = "panic"

\* C20 witness: get_nodes and get_nodes_names have both returned for the same
\* arguments with a target type; one selected node was serialized and listed,
\* another has no form in the target and was left out
C20_Witness ==
    /\ argsOut # None
    /\ Len(fnCall) = 2
    /\ fnCall[1].result.tag = "ok"
    /\ fnCall[2].result.tag = "ok"
    /\ fnCall[1].args.type # None
    /\ fnCall[1].args.type[1].t = "string"
    /\ \E c \in 1..2 :
         /\ fnCall[c].fn = "get_nodes_names"
         /\ Len(ListedNames(fnCall[c])) >= 1
         /\ Len(ListedNames(fnCall[c])) < Len(FilteredOf(fnCall[c].args))


\* the provider names and the provider indexes a call names, whether as one
\* value or in an array
NamedProviders(args) ==
    IF args.provider = None THEN {}
    ELSE IF args.provider[1].t = "array"
    THEN {args.provider[1].v[i] : i \in DOMAIN args.provider[1].v}
    ELSE {args.provider[1]}

NamedIndexes(args) ==
    IF args.provider_index = None THEN {}
    ELSE IF args.provider_index[1].t = "array"
    THEN {args.provider_index[1].v[i] : i \in DOMAIN args.provider_index[1].v}
    ELSE {args.provider_index[1]}

\* C21: a call of get_nodes or get_nodes_names with both `provider` and
\* `provider_index` returns an error, whatever the two values and the other
\* arguments are; so does a call that names a provider or an index that does
\* not exist, alone or in an array, and a call with an empty array.
C21_ScopeErrors ==
    argsOut # None =>
        \A c \in DOMAIN fnCall :
            LET args == fnCall[c].args
                known == DOMAIN argsOut[1].nodes_by_provider_names
                count == Len(argsOut[1].nodes_by_providers)
            IN \/ args.provider # None /\ args.provider_index # None
               \/ \E value \in NamedProviders(args) :
                     value.t = "string" /\ value.v \notin known
               \/ \E value \in NamedIndexes(args) :
                     value.t = "number" /\ value.v >= count
               \/ args.provider # None /\ args.provider[1] = [t |-> "array", v |-> <<>>]
               \/ /\ args.provider_index # None
                  /\ args.provider_index[1] = [t |-> "array", v |-> <<>>]
               => fnCall[c].result.tag = "err"

\* C21 witness: get_nodes_names has been called with both arguments, each
\* of them valid alone, together with a name filter and a target type
C21_Witness ==
    /\ argsOut # None
    /\ \E c \in DOMAIN fnCall :
         /\ fnCall[c].result.tag = "err"
         /\ fnCall[c].args.provider # None
         /\ fnCall[c].args.provider_index # None
         /\ fnCall[c].args.provider[1].t = "string"
         /\ fnCall[c].args.provider_index[1].t = "number"
         /\ AnyFilter(fnCall[c].args)
         /\ fnCall[c].args.type # None
         /\ fnCall[c].fn = "get_nodes_names"


\* C29: when a call of get_nodes or get_nodes_names supplies a name filter,
\* negative filters alone included, no node without a name is in its result;
\* when it supplies none, the unnamed nodes of the scope are returned with
\* the others.
C29_UnnamedExcludedByAnyFilter ==
    argsOut # None =>
        \A c \in DOMAIN fnCall :
            LET call == fnCall[c]
                scope == ScopeOf(call.args)
            IN call.result.tag = "ok" /\ call.args.type = None =>
                 IF AnyFilter(call.args)
                 THEN IF call.fn = "get_nodes"
                      THEN \A n \in DOMAIN ReturnedNodes(call) :
                              IsNamed(ReturnedNodes(call)[n])
                      ELSE \A e \in DOMAIN ListedNames(call) :
                              \E n \in DOMAIN scope :
                                 /\ IsNamed(scope[n])
                                 /\ get_name(scope[n])[1] = ListedNames(call)[e]
                 ELSE IF call.fn = "get_nodes"
                      THEN ReturnedNodes(call) = scope
                      ELSE ListedNames(call)
                             = [n \in DOMAIN scope |-> get_display_name(scope[n])]

\* C29 witness: get_nodes_names, called with negative filters only on a scope
\* that holds an unnamed node, has listed fewer names than the scope has
\* nodes although every name of the scope passes the filters
C29_Witness ==
    /\ argsOut # None
    /\ \E c \in DOMAIN fnCall :
         LET call == fnCall[c]
             scope == ScopeOf(call.args)
         IN /\ call.fn = "get_nodes_names"
            /\ call.result.tag = "ok"
            /\ call.args.type = None
            /\ call.args.name_not_starts_with # None
            /\ call.args.name_not_ends_with # None
            /\ \E n \in DOMAIN scope : ~IsNamed(scope[n])
            /\ \A n \in DOMAIN scope :
                  PassesAll(call.args, get_display_name(scope[n]))
            /\ ListedNames(call) # <<>>
            /\ Len(ListedNames(call)) < Len(scope)


(***************************************************************************)
(* SpecLink: an SSR subscription of one link is decoded                    *)
(***************************************************************************)
\* ss:// links with the user-info in base64 and in the clear
SsLinks ==
    LET Encoded(base64, decoded) ==
            [text |-> "url", scheme |-> "ss", server |-> Some(StrHost),
             port |-> Some(8888), userinfo |-> [base64 |-> base64, decoded |-> decoded],
             plugin |-> None, fragment |-> Some(StrA)]
        Texts == {<<"aes-128-gcm", ":", "test">>,
                  <<"aes-128-gcm", ":", "pa", ":", "ss">>,
                  <<"aes-128-gcm", ":", "pa", ":">>,
                  <<"aes-128-gcm", ":", ":", "ss">>,
                  <<"rc4-md5", ":", "a", ":", "b", ":", "c">>,
                  <<"aes-128-gcm", ":">>,
                  <<"aes-128-gcm">>,
                  <<>>,
                  <<":", "test">>,
                  <<"aes-128-xyz", ":", "test">>}
        Aliases == {MethodAliases[i][1] : i \in DOMAIN MethodAliases}
                   \cup {"", "aes-128-xyz", "AES-128-GCM", "aes-128-gcm ", "AeadAes128Gcm"}
    IN {Encoded(TRUE, t) : t \in Texts}
       \cup {Encoded(FALSE, <<"aes-128-gcm", ":", "test">>)}
       \cup {[LinkSs EXCEPT !.method = a] : a \in Aliases}
       \cup {Encoded(TRUE, <<a, ":", "test">>) : a \in Aliases}

\* ssr:// links: the decoded host with one to seven fields before "/?", with
\* and without a port and a password that decode, and with the queries below
SsrLinks ==
    LET Queries ==
            {None,
             Some([remarks |-> Some(StrAB)]),
             Some([remarks |-> Some(<<>>)]),
             Some([remarks |-> None]),
             Some([obfsparam |-> Some(StrB)]),
             Some([obfsparam |-> Some(<<>>)]),
             Some([obfsparam |-> None]),
             Some([protoparam |-> Some(StrP)]),
             Some([protoparam |-> Some(<<>>)]),
             Some([protoparam |-> None]),
             Some([remarks |-> Some(StrA), obfsparam |-> Some(StrB),
                   protoparam |-> Some(StrP), udpport |-> Some(53),
                   uot |-> Some(1)]),
             Some([udpport |-> None]),
             Some([uot |-> Some(0)]),
             Some([uot |-> None]),
             Some([malformed |-> TRUE])}
    IN {[LinkSsr EXCEPT !.blob[1].nfields = n, !.blob[1].port = port,
                        !.blob[1].password = password, !.blob[1].query = query] :
            n \in 1..7, port \in {Some(1234), None},
            password \in {Some("aaabbb"), None}, query \in Queries}
       \cup {[LinkSsr EXCEPT !.blob[1].base64 = FALSE], [LinkSsr EXCEPT !.blob = None]}

InitLink ==
    /\ \E options \in {NoOptions, SomeOptions} :
         dProvider = Some([type |-> "ssr", name |-> None, options |-> options])
    /\ \E link \in SsLinks \cup SsrLinks :
         dContent = Some([base64 |-> TRUE, entries |-> <<link>>])
    /\ dResult = None
    /\ RenderIdle
    /\ MainIdle
    /\ SortIdle
    /\ AdaptorIdle
    /\ SpeedIdle
    /\ FunctionIdle

SpecLink == InitLink /\ [][NextDecode]_vars


(***************************************************************************)
(* Claims about the decoding of links                                      *)
(***************************************************************************)
\* the one link of the content
TheLink == dContent[1].entries[1]

\* the characters of the pieces, one after the other
RECURSIVE ConcatPieces(_)
ConcatPieces(text) ==
    IF text = <<>> THEN "" ELSE Head(text) \o ConcatPieces(Tail(text))

\* the position of the first ":" of a text that has one
FirstColon(text) ==
    CHOOSE i \in DOMAIN text : text[i] = ":" /\ \A j \in 1..(i - 1) : text[j] # ":"

HasColon(text) == \E i \in DOMAIN text : text[i] = ":"

\* an ss:// link whose user-info is valid base64
EncodedSsLink ==
    /\ TheLink.scheme = "ss"
    /\ "userinfo" \in DOMAIN TheLink
    /\ TheLink.userinfo.base64

\* C22: the decoded user-info of an ss:// link is split once, on its first
\* ':': the method is the text before it and the password is all the text
\* after it, further ':' included.
C22_SplitOnFirstColon ==
    /\ Decoded
    /\ EncodedSsLink
    /\ HasColon(TheLink.userinfo.decoded)
    => LET text == TheLink.userinfo.decoded
           before == ConcatPieces(SubSeq(text, 1, FirstColon(text) - 1))
           after == ConcatPieces(SubSeq(text, FirstColon(text) + 1, Len(text)))
       IN IF from_alias(before) = None THEN dResult[1].tag = "err"
          ELSE /\ dResult[1].tag = "ok"
               /\ dResult[1].val[1].method = from_alias(before)[1]
               /\ dResult[1].val[1].password = after


\* the alias an ss:// link carries as its method
LinkAlias ==
    IF "userinfo" \in DOMAIN TheLink THEN SplitColon(TheLink.userinfo.decoded)[1]
    ELSE TheLink.method

\* an ss:// link that is sound except, possibly, for its method
SoundSsLink ==
    /\ TheLink.scheme = "ss"
    /\ "userinfo" \in DOMAIN TheLink =>
          TheLink.userinfo.base64 /\ HasColon(TheLink.userinfo.decoded)

\* C24: the alias table is a bijection between the Method values and the
\* recognized aliases: from_alias(get_alias(m)) = Some(m) for every Method m,
\* and a link decodes iff its alias is the alias of a Method, to the one
\* Method whose get_alias is that alias; any other string fails the link.
C24_AliasTableBijection ==
    LET Methods == {MethodAliases[i][2] : i \in DOMAIN MethodAliases}
    IN /\ \A m \in Methods : from_alias(get_alias(m)) = Some(m)
       /\ \A m1, m2 \in Methods : get_alias(m1) = get_alias(m2) => m1 = m2
       /\ Decoded /\ SoundSsLink =>
            IF \E m \in Methods : get_alias(m) = LinkAlias
            THEN /\ dResult[1].tag = "ok"
                 /\ dResult[1].val[1].method \in Methods
                 /\ get_alias(dResult[1].val[1].method) = LinkAlias
            ELSE dResult[1].tag = "err"

\* C24 witness: a link in the clear with the alias of an AEAD-2022 cipher
\* has been decoded to that cipher
C24_Witness ==
    /\ Decoded
    /\ SoundSsLink
    /\ "userinfo" \notin DOMAIN TheLink
    /\ dResult[1].tag = "ok"
    /\ LinkAlias = "2022-blake3-aes-256-gcm"
    /\ dResult[1].val[1].method = "Ss2022Blake3Aes256Gcm"


\* the decoded host of an ssr:// link that is valid base64
SsrBlob == TheLink.blob[1]

\* the value of a query key that holds text in base64: absent when the key
\* is missing or its text is empty
QueryText(key) ==
    IF SsrBlob.query # None /\ key \in DOMAIN SsrBlob.query[1]
       /\ SsrBlob.query[1][key] # Some(<<>>)
    THEN SsrBlob.query[1][key] ELSE None

\* a key of the query whose value is not valid base64
MalformedText(key) ==
    /\ SsrBlob.query # None
    /\ key \in DOMAIN SsrBlob.query[1]
    /\ SsrBlob.query[1][key] = None

\* an ssr:// link whose host is valid base64, whose port is a number and
\* whose query, if any, parses and holds numbers for udpport and uot
SsrLinkInScope ==
    /\ TheLink.scheme = "ssr"
    /\ TheLink.blob # None
    /\ SsrBlob.base64
    /\ SsrBlob.port # None
    /\ SsrBlob.query # None =>
          /\ "malformed" \notin DOMAIN SsrBlob.query[1]
          /\ \A key \in {"udpport", "uot"} \cap DOMAIN SsrBlob.query[1] :
                SsrBlob.query[1][key] # None

\* C23: SsrNode::from_url builds a node only from exactly six fields, which
\* become server, port, protocol, method, obfuscation and decoded password,
\* with remarks, obfsparam and protoparam each filling its own field and
\* absent when missing or empty; fewer or more than six fields, or malformed
\* base64 in a field, give an error: no crash and no node.
C23_SixFieldsOrError ==
    Decoded /\ SsrLinkInScope =>
        IF /\ SsrBlob.nfields = 6
           /\ SsrBlob.password # None
           /\ \A key \in {"remarks", "obfsparam", "protoparam"} : ~MalformedText(key)
        THEN /\ dResult[1].tag = "ok"
             /\ LET node == dResult[1].val[1]
                IN /\ node.server = SsrBlob.server
                   /\ node.server_port = SsrBlob.port[1]
                   /\ node.protocol = SsrBlob.protocol
                   /\ node.method = SsrBlob.method
                   /\ node.obfs = SsrBlob.obfs
                   /\ node.password = SsrBlob.password[1]
                   /\ node.remarks = QueryText("remarks")
                   /\ node.obfs_param = QueryText("obfsparam")
                   /\ node.protocol_param = QueryText("protoparam")
        ELSE dResult[1].tag = "err"


\* C25: the udp-relay of a Shadowsocks node converted by Surge is true iff
\* the node's udp is Some(true) and its udp_over_tcp is not Some(true); for
\* every other combination of the two flags it is false.
C25_SurgeUdpRelay ==
    /\ adConvert # None
    /\ adConvert[1].adaptor = "surge"
    /\ adConvert[1].node.type = "ss"
    /\ adConvert[1].result.tag = "ok"
    /\ adConvert[1].result.val # None
    => LET node == adConvert[1].node
           relay == adConvert[1].result.val[1].proxy.udp_relay
       IN /\ relay \in BOOLEAN
          /\ relay <=> (node.udp = <<TRUE>> /\ node.udp_over_tcp # <<TRUE>>)
          /\ node.udp \in {<<>>, <<FALSE>>} => ~relay
          /\ node.udp_over_tcp = <<TRUE>> => ~relay

\* C25 witness: Surge has converted a Shadowsocks node with udp and
\* udp_over_tcp both Some(true), and its udp-relay is false
C25_Witness ==
    /\ adConvert # None
    /\ adConvert[1].adaptor = "surge"
    /\ adConvert[1].node.type = "ss"
    /\ adConvert[1].node.udp = Some(TRUE)
    /\ adConvert[1].node.udp_over_tcp = Some(TRUE)
    /\ adConvert[1].result.tag = "ok"
    /\ adConvert[1].result.val # None
    /\ ~adConvert[1].result.val[1].proxy.udp_relay


(***************************************************************************)
(* The provider's override options                                         *)
(***************************************************************************)
\* the value entry i of the returned list had before the overrides: what
\* from_url decoded from the link, or what the Clash proxy carried
DecodedEntry(i) ==
    IF dProvider[1].type = "ssr"
    THEN IF UrlLines[i].scheme = "ss" THEN SsNode_from_url(UrlLines[i]).val
         ELSE SsrNode_from_url(UrlLines[i]).val
    ELSE Clash_convert_proxy(GoodProxies[i])[1]

\* field `field` of node i carries the option when it is set and the decoded
\* value otherwise
Overridden(i, field, option) ==
    dResult[1].val[i][field] =
        IF dProvider[1].options[option] # None
        THEN dProvider[1].options[option]
        ELSE DecodedEntry(i)[field]

\* C30: for both provider kinds, every Shadowsocks node of the returned list
\* carries ss_udp in udp and ss_udp_over_tcp in udp_over_tcp when the option
\* is set, every ShadowsocksR node carries ssr_udpport in udpport and ssr_uot
\* in uot when the option is set, and an option that is not set leaves the
\* decoded value unchanged.
C30_OverridesApply ==
    (Decoded /\ dResult[1].tag = "ok") =>
        \A i \in DOMAIN dResult[1].val :
            IF dResult[1].val[i].type = "ss"
            THEN Overridden(i, "udp", "ss_udp")
                 /\ Overridden(i, "udp_over_tcp", "ss_udp_over_tcp")
            ELSE Overridden(i, "udpport", "ssr_udpport")
                 /\ Overridden(i, "uot", "ssr_uot")


(***************************************************************************)
(* Order of completion                                                     *)
(***************************************************************************)
\* the nodes of a provider's content one by one in the order of the content:
\* the links of an SSR subscription decoded, the convertible proxies of a
\* Clash subscription converted
NodesInContentOrder(provider, content) ==
    IF provider.type = "ssr"
    THEN LET links == SelectSeq(content.entries, LAMBDA e : e.text = "url")
         IN [j \in DOMAIN links |-> Ssr_decode_link(provider.options, links[j]).val]
    ELSE LET kept == SelectSeq(content.entries,
                               LAMBDA e : /\ e.type \in {"ss", "ssr"}
                                          /\ Clash_convert_proxy(e) # None)
         IN [j \in DOMAIN kept |-> Clash_convert_proxy(kept[j])[1]]

Occurrences(log, t) == {i \in DOMAIN log : log[i].tpl = t}

\* C27: during one call of render every configured template is rendered, and
\* its file written, at most once; a template leaves the queue only in the
\* step that hands it to the templating engine, so as long as render has not
\* returned an error the templates outside the queue are exactly the rendered
\* and written ones, and when render returns Ok the queue is empty and every
\* configured template has been rendered and written exactly once.
C27_RenderedExactlyOnce ==
    /\ [](\A t \in Tids :
            /\ Cardinality(Occurrences(rendered, t)) <= 1
            /\ Cardinality(Occurrences(written, t)) <= 1
            /\ Cardinality(Occurrences([i \in DOMAIN queue |-> [tpl |-> queue[i]]], t)) <= 1)
    /\ [](rpc \in {"running", "ok"} =>
            /\ Tids \ Range(queue) = RenderedTids
            /\ RenderedTids = WrittenTids)
    /\ [](rpc = "ok" =>
            /\ queue = <<>>
            /\ \A t \in Tids :
                  /\ Cardinality(Occurrences(rendered, t)) = 1
                  /\ Cardinality(Occurrences(written, t)) = 1)
    /\ [][Range(queue') # Range(queue) =>
            /\ RenderAttempt
            /\ RequiresMet(Head(queue))
            /\ Range(queue') = Range(queue) \ {Head(queue)}
            /\ \/ /\ Occurrences(rendered', Head(queue)) = {Len(rendered) + 1}
                  /\ rpc' = "err" \/ Occurrences(written', Head(queue)) = {Len(written) + 1}
               \/ /\ rpc' = "err"
                  /\ UNCHANGED <<rendered, written>>
         ]_vars

\* C27 witness: render returned Ok after a template was pushed back, with
\* two templates of one name among the rendered ones
C27_Witness ==
    /\ rpc = "ok"
    /\ queue = <<>>
    /\ Len(templates) = MaxTemplates
    /\ Len(rendered) = MaxTemplates
    /\ rendered[1].tpl # 1
    /\ \E t, u \in Tids : t # u /\ templates[t].name # None
                          /\ templates[t].name = templates[u].name

\* the template of name n rendered most recently before position i of the
\* renderings, 0 when there is none
NamedBefore(n, i) ==
    LET idx == {k \in 1..(i - 1) : templates[rendered[k].tpl].name = Some(n)}
    IN IF idx = {} THEN 0
       ELSE rendered[CHOOSE k \in idx : \A m \in idx : m <= k].tpl

\* the templates configured under the name n
TemplatesNamed(n) == {t \in Tids : templates[t].name = Some(n)}

\* C28 as stated: once a template that requires the name n has been
\* rendered, the registry value of n stays the one that template embedded,
\* also when several templates share the name.
C28_AsClaimed ==
    \A i \in DOMAIN rendered :
        \A n \in templates[rendered[i].tpl].requires :
            /\ n \in DOMAIN output
            /\ output[n].tpl = rendered[i].text.embeds[n]

\* C28 (amended): a template that requires the name n embeds the output of
\* the template named n that was rendered most recently before it; the
\* registry value of n then changes only in a step that renders another
\* template named n, so when a single template has the name n what the
\* dependent template embedded is the final output registered under n, and
\* when several templates share the name each one rendered later replaces
\* the value the dependent template embedded.
C28_RegistryChangesOnlyByRenderOfName ==
    /\ [](\A i \in DOMAIN rendered :
            \A n \in templates[rendered[i].tpl].requires :
                /\ n \in DOMAIN output
                /\ n \in DOMAIN rendered[i].text.embeds
                /\ rendered[i].text.embeds[n] = NamedBefore(n, i)
                /\ output[n].tpl = NamedBefore(n, Len(rendered) + 1)
                /\ Cardinality(TemplatesNamed(n)) = 1
                      => output[n].tpl = rendered[i].text.embeds[n])
    /\ [][\A n \in DOMAIN output :
            /\ n \in DOMAIN output'
            /\ output'[n] # output[n] =>
                  /\ RenderAttempt
                  /\ templates[Head(queue)].name = Some(n)
                  /\ output'[n].tpl = Head(queue)
         ]_vars

\* C28 witness: after a template that requires a name was rendered, a second
\* template of that name was rendered and replaced the registry value
C28_Witness ==
    \E i, j \in DOMAIN rendered :
        /\ i < j
        /\ templates[rendered[j].tpl].name # None
        /\ templates[rendered[j].tpl].name[1] \in templates[rendered[i].tpl].requires
        /\ output[templates[rendered[j].tpl].name[1]].tpl = rendered[j].tpl
        /\ rendered[i].text.embeds[templates[rendered[j].tpl].name[1]] # rendered[j].tpl

====
